---- MODULE Spec2Model ----
(***************************************************************************)
(* A model of build_newsletter.py: the points parser (read_points,         *)
(* parse_order), the distribution normalizer, the content block renderer   *)
(* and the build run of main.                                              *)
(*                                                                         *)
(* Text is a sequence of one-character strings.  A spreadsheet cell is a   *)
(* record [t, n, f, s]: None, an int n, a float n.f (one fractional        *)
(* digit) or a string s; CSV sources only ever produce string cells.       *)
(***************************************************************************)
EXTENDS Integers, Sequences, FiniteSets, TLC

VARIABLES
    points_sheet,   \* read_points: the data rows (sheet rows 2..), by column name
    rp_pc,          \* read_points: "loop", "returned", "raised"
    row_number,     \* read_points: the sheet row the loop is at (first data row is 2)
    points,         \* read_points: the list of Point built so far / returned
    rp_error,       \* read_points: the ValueError raised, or NoError
    segments,       \* finalize_distribution_segments: the segments passed in
    max_supply_btc, \* finalize_distribution_segments: the reference total
    fd_pc,          \* finalize_distribution_segments: "start", "derived", "rescaled", "returned"
    normalized,     \* finalize_distribution_segments: the list being built / returned
    raw,            \* render_content_blocks: the text passed in
    lines,          \* render_content_blocks: raw split into lines
    line_index,     \* render_content_blocks: the line the loop is at
    blocks,         \* render_content_blocks: the blocks emitted so far / returned
    list_open,      \* render_content_blocks: whether a <ul> is open
    rc_pc,          \* render_content_blocks: "start", "loop", "returned"
    pc,             \* main: the statement the build run is at, "done" or "failed"
    source,         \* main: [kind, available, sheets]: the workbook or Google Sheet
    meta_rows,      \* main: the data rows of the meta table
    distribution_rows, \* main: the data rows of the distribution table
    meta,           \* main: the dict read_meta returned
    distribution,   \* main: the segments of the distribution
    history,        \* main: the files of the history directory, name -> content
    backup_path,    \* main: the name of the snapshot of this run, or NoPath
    out_file,       \* main: the output file: "absent", "old", "partial" or "new"
    completed,      \* main: the steps completed so far, in order
    error,          \* main: the exception that ended the run, or NoError
    headers,        \* header_index_map / read_distribution: the header row (sheet row 1)
    sheet_rows,     \* the data rows of the sheet, as tuples of cells
    rd_pc,          \* read_distribution: "header", "loop", "finalize", "raised"
    rd_index,       \* read_distribution: the data row the loop is at
    rd_error,       \* read_distribution: the ValueError raised, or NoError
    rm_pc,          \* read_meta: "loop", "defaults", "returned"
    rm_index,       \* read_meta: the data row the loop is at
    em_text,        \* emphasize_numbers: the text passed in
    em_pos,         \* emphasize_numbers: where finditer looks for the next match
    em_start,       \* emphasize_numbers: start, the end of the last match
    em_output,      \* emphasize_numbers: the parts appended to output so far
    em_pc,          \* emphasize_numbers: "scan", "returned"
    point,          \* resolve_image_path: the Point passed in
    files,          \* the paths that exist, relative to the output directory
    probed,         \* the paths whose existence was checked, in order
    img_pc,         \* resolve_image_path / resolve_extra_image_paths: position
    probe_index,    \* the filename candidate / extension the loop is at
    extra_index,    \* resolve_extra_image_paths: index of the outer loop
    candidate,      \* resolve_image_path: candidate
    image_src,      \* resolve_image_path: the path returned
    sources         \* resolve_extra_image_paths: the paths collected / returned

points_vars == <<points_sheet, rp_pc, row_number, points, rp_error>>
dist_vars == <<segments, max_supply_btc, fd_pc, normalized>>

render_vars == <<raw, lines, line_index, blocks, list_open, rc_pc>>

main_vars ==
    <<pc, source, meta_rows, distribution_rows, meta, distribution, history, backup_path,
      out_file, completed, error>>

sheet_vars == <<headers, sheet_rows, rd_pc, rd_index, rd_error>>

meta_vars == <<rm_pc, rm_index>>

emphasize_vars == <<em_text, em_pos, em_start, em_output, em_pc>>

image_vars ==
    <<point, files, probed, img_pc, probe_index, extra_index, candidate, image_src,
      sources>>

other_vars == <<sheet_vars, meta_vars, emphasize_vars, image_vars>>

vars == <<points_vars, dist_vars, render_vars, main_vars, other_vars>>

(***************************************************************************)
(* Bounds of the model.                                                    *)
(***************************************************************************)
MaxRows == 3        \* longest sheet of the mixed (valid / blank / invalid) family
MaxLong == 11       \* longest sheet of the all-valid family
MaxSegments == 3    \* longest list of distribution segments
MaxLines == 4       \* most lines of a content text

MAX_POINTS == 10

(***************************************************************************)
(* Text helpers.                                                           *)
(***************************************************************************)
DigitChars == <<"0", "1", "2", "3", "4", "5", "6", "7", "8", "9">>

Whitespace == {" ", "\t", "\r", "\n"}

IsDigitChar(c) == \E i \in 1..10 : DigitChars[i] = c

DigitValue(c) == (CHOOSE i \in 1..10 : DigitChars[i] = c) - 1

RECURSIVE NatToText(_)
NatToText(n) ==
    IF n < 10 THEN <<DigitChars[n + 1]>>
    ELSE NatToText(n \div 10) \o <<DigitChars[(n % 10) + 1]>>

\* str(int)
IntToText(n) == IF n < 0 THEN <<"-">> \o NatToText(0 - n) ELSE NatToText(n)

RECURSIVE TextToNat(_)
\* int(text) for a text of decimal digits
TextToNat(t) ==
    IF t = <<>> THEN 0
    ELSE 10 * TextToNat(SubSeq(t, 1, Len(t) - 1)) + DigitValue(t[Len(t)])

RECURSIVE LStrip(_)
LStrip(t) ==
    IF t # <<>> /\ t[1] \in Whitespace THEN LStrip(Tail(t)) ELSE t

RECURSIVE RStrip(_)
RStrip(t) ==
    IF t # <<>> /\ t[Len(t)] \in Whitespace
    THEN RStrip(SubSeq(t, 1, Len(t) - 1)) ELSE t

\* str.strip()
Strip(t) == RStrip(LStrip(t))

\* str.isdigit(), on the ASCII digits
isdigit(t) == t # <<>> /\ \A i \in 1..Len(t) : IsDigitChar(t[i])

UpperLetters ==
    <<"A", "B", "C", "D", "E", "F", "G", "H", "I", "J", "K", "L", "M",
      "N", "O", "P", "Q", "R", "S", "T", "U", "V", "W", "X", "Y", "Z">>

LowerLetters ==
    <<"a", "b", "c", "d", "e", "f", "g", "h", "i", "j", "k", "l", "m",
      "n", "o", "p", "q", "r", "s", "t", "u", "v", "w", "x", "y", "z">>

LowerChar(c) ==
    IF \E i \in 1..26 : UpperLetters[i] = c
    THEN LowerLetters[CHOOSE i \in 1..26 : UpperLetters[i] = c]
    ELSE c

\* str.lower()
Lower(t) == [i \in 1..Len(t) |-> LowerChar(t[i])]

(***************************************************************************)
(* Cells.                                                                  *)
(***************************************************************************)
None == [t |-> "none", n |-> 0, f |-> 0, s |-> <<>>]
IntCell(n) == [t |-> "int", n |-> n, f |-> 0, s |-> <<>>]
FloatCell(n, f) == [t |-> "float", n |-> n, f |-> f, s |-> <<>>]
StrCell(s) == [t |-> "str", n |-> 0, f |-> 0, s |-> s]

\* str(value) of a cell that is not None
PyStr(value) ==
    CASE value.t = "int" -> IntToText(value.n)
      [] value.t = "float" -> IntToText(value.n) \o <<".">> \o NatToText(value.f)
      [] OTHER -> value.s

normalize_text(value) ==
    IF value.t = "none" THEN <<>> ELSE Strip(PyStr(value))

(***************************************************************************)
(* Errors: the ValueError messages of read_points and parse_order, by      *)
(* kind, with the row number and the values the message carries.           *)
(***************************************************************************)
NoError == [kind |-> "none", row |-> 0, values |-> <<>>]
RowError(kind, row) == [kind |-> kind, row |-> row, values |-> <<>>]
ListError(kind, values) == [kind |-> kind, row |-> 0, values |-> values]

(***************************************************************************)
(* parse_order(value, row_number): [parsed, error].                        *)
(***************************************************************************)
OrderRange(parsed, row) ==
    IF parsed < 1 \/ parsed > MAX_POINTS
    THEN [parsed |-> 0, error |-> RowError("order_range", row)]
    ELSE [parsed |-> parsed, error |-> NoError]

parse_order(value, row) ==
    LET text == normalize_text(value) IN
    IF text = <<>> THEN [parsed |-> 0, error |-> RowError("missing_order", row)]
    ELSE IF value.t = "int" THEN OrderRange(value.n, row)
    ELSE IF value.t = "float" THEN
        IF value.f # 0
        THEN [parsed |-> 0, error |-> RowError("order_not_whole", row)]
        ELSE OrderRange(value.n, row)
    ELSE IF ~isdigit(text)
        THEN [parsed |-> 0, error |-> RowError("invalid_order", row)]
        ELSE OrderRange(TextToNat(text), row)

(***************************************************************************)
(* read_points: one data row.                                              *)
(***************************************************************************)
\* the six normalize_text calls at the head of the loop body
RowTexts(row) ==
    [order_text |-> normalize_text(row.order),
     title |-> normalize_text(row.title),
     content |-> normalize_text(row.content),
     image_path |-> normalize_text(row.image_path),
     image_caption |-> normalize_text(row.image_caption),
     source |-> normalize_text(row.source)]

\* mutant: the spacer check is missing
IsSpacerRowNever(r) == FALSE

\* not any([order_text, title, content, image_path, image_caption, source])
IsSpacerRow(r) ==
    /\ r.order_text = <<>>
    /\ r.title = <<>>
    /\ r.content = <<>>
    /\ r.image_path = <<>>
    /\ r.image_caption = <<>>
    /\ r.source = <<>>

\* the order handed to parse_order: the normalized text, a str
OrderArgument(r) == StrCell(r.order_text)

\* mutant: the content check runs before the title check
ValidateRowContentFirst(r, row) ==
    LET o == parse_order(OrderArgument(r), row) IN
    IF o.error # NoError THEN o.error
    ELSE IF r.content = <<>> THEN RowError("missing_content", row)
    ELSE IF r.title = <<>> THEN RowError("missing_title", row)
    ELSE NoError

\* the checks of a row that is not skipped, in the order of the code
ValidateRow(r, row) ==
    LET o == parse_order(OrderArgument(r), row) IN
    IF o.error # NoError THEN o.error
    ELSE IF r.title = <<>> THEN RowError("missing_title", row)
    ELSE IF r.content = <<>> THEN RowError("missing_content", row)
    ELSE NoError

MakePoint(r, row) ==
    [order |-> parse_order(OrderArgument(r), row).parsed,
     title |-> r.title,
     content |-> r.content,
     image_path |-> r.image_path,
     image_caption |-> r.image_caption,
     source |-> r.source]

(***************************************************************************)
(* read_points: after the loop.                                            *)
(***************************************************************************)
RECURSIVE InsertByOrder(_, _)
\* stable insertion: p goes after every point whose order is <= p.order
InsertByOrder(sorted, p) ==
    IF sorted = <<>> THEN <<p>>
    ELSE IF sorted[Len(sorted)].order <= p.order THEN Append(sorted, p)
    ELSE Append(InsertByOrder(SubSeq(sorted, 1, Len(sorted) - 1), p),
                sorted[Len(sorted)])

\* mutant: the sort is missing
SortByOrderMissing(ps) == ps

RECURSIVE SortByOrder(_)
\* points.sort(key=lambda item: item.order)
SortByOrder(ps) ==
    IF ps = <<>> THEN <<>>
    ELSE InsertByOrder(SortByOrder(SubSeq(ps, 1, Len(ps) - 1)), ps[Len(ps)])

Count(ps, order) == Cardinality({i \in 1..Len(ps) : ps[i].order = order})

RECURSIVE SortedSeq(_)
\* sorted(set of integers)
SortedSeq(S) ==
    IF S = {} THEN <<>>
    ELSE LET m == CHOOSE x \in S : \A y \in S : x <= y
         IN <<m>> \o SortedSeq(S \ {m})

\* mutant: count(order) > 0 instead of > 1
DuplicatesOffByOne(ps) ==
    SortedSeq({ps[i].order : i \in {j \in 1..Len(ps) : Count(ps, ps[j].order) > 0}})

\* sorted({order for order in orders if orders.count(order) > 1})
Duplicates(ps) ==
    SortedSeq({ps[i].order : i \in {j \in 1..Len(ps) : Count(ps, ps[j].order) > 1}})

\* mutant: the count check runs before the duplicate check
PointsTailCountFirst(ps) ==
    IF ps = <<>> THEN [points |-> ps, error |-> ListError("no_points", <<>>)]
    ELSE LET sorted == SortByOrder(ps) IN
         IF Len(sorted) > MAX_POINTS
         THEN [points |-> sorted, error |-> ListError("too_many", <<Len(sorted)>>)]
         ELSE IF Duplicates(sorted) # <<>>
         THEN [points |-> sorted,
               error |-> ListError("duplicate_orders", Duplicates(sorted))]
         ELSE [points |-> sorted, error |-> NoError]

\* the statements of read_points after the loop: [points, error]
PointsTail(ps) ==
    IF ps = <<>> THEN [points |-> ps, error |-> ListError("no_points", <<>>)]
    ELSE LET sorted == SortByOrder(ps) IN
         IF Duplicates(sorted) # <<>>
         THEN [points |-> sorted,
               error |-> ListError("duplicate_orders", Duplicates(sorted))]
         ELSE IF Len(sorted) > MAX_POINTS
         THEN [points |-> sorted, error |-> ListError("too_many", <<Len(sorted)>>)]
         ELSE [points |-> sorted, error |-> NoError]

(***************************************************************************)
(* read_points as a state machine over the sheet's data rows.              *)
(***************************************************************************)
AtRow == rp_pc = "loop" /\ row_number - 1 <= Len(points_sheet)
CurrentRow == RowTexts(points_sheet[row_number - 1])

\* `continue` on a spacer row
SkipSpacerRow ==
    /\ AtRow
    /\ IsSpacerRow(CurrentRow)
    /\ row_number' = row_number + 1
    /\ UNCHANGED <<points_sheet, rp_pc, points, rp_error, dist_vars, render_vars, main_vars, other_vars>>

\* mutant: the error of a row is noted and the loop goes on
RaiseRowErrorAndContinue ==
    /\ AtRow
    /\ ~IsSpacerRow(CurrentRow)
    /\ ValidateRow(CurrentRow, row_number) # NoError
    /\ rp_error' = ValidateRow(CurrentRow, row_number)
    /\ row_number' = row_number + 1
    /\ UNCHANGED <<points_sheet, rp_pc, points, dist_vars, render_vars, main_vars, other_vars>>

\* parse_order or the title / content check raises
RaiseRowError ==
    /\ AtRow
    /\ ~IsSpacerRow(CurrentRow)
    /\ ValidateRow(CurrentRow, row_number) # NoError
    /\ rp_error' = ValidateRow(CurrentRow, row_number)
    /\ rp_pc' = "raised"
    /\ UNCHANGED <<points_sheet, row_number, points, dist_vars, render_vars, main_vars, other_vars>>

\* points.append(Point(...))
AppendPoint ==
    /\ AtRow
    /\ ~IsSpacerRow(CurrentRow)
    /\ ValidateRow(CurrentRow, row_number) = NoError
    /\ points' = Append(points, MakePoint(CurrentRow, row_number))
    /\ row_number' = row_number + 1
    /\ UNCHANGED <<points_sheet, rp_pc, rp_error, dist_vars, render_vars, main_vars, other_vars>>

\* the rows are exhausted: the empty check, the sort, the duplicate and
\* count checks, and the return
FinishPoints ==
    /\ rp_pc = "loop"
    /\ row_number - 1 > Len(points_sheet)
    /\ points' = PointsTail(points).points
    /\ rp_error' = PointsTail(points).error
    /\ rp_pc' = IF PointsTail(points).error = NoError THEN "returned" ELSE "raised"
    /\ UNCHANGED <<points_sheet, row_number, dist_vars, render_vars, main_vars, other_vars>>

NextPoints == SkipSpacerRow \/ RaiseRowError \/ AppendPoint \/ FinishPoints

\* read_points on a whole sheet: the loop from data row `row`, then the tail
RECURSIVE PointsLoop(_, _, _)
PointsLoop(sheet, row, ps) ==
    IF row - 1 > Len(sheet) THEN PointsTail(ps)
    ELSE LET r == RowTexts(sheet[row - 1]) IN
         IF IsSpacerRow(r) THEN PointsLoop(sheet, row + 1, ps)
         ELSE IF ValidateRow(r, row) # NoError
         THEN [points |-> ps, error |-> ValidateRow(r, row)]
         ELSE PointsLoop(sheet, row + 1, Append(ps, MakePoint(r, row)))

read_points(sheet) == PointsLoop(sheet, 2, <<>>)

(***************************************************************************)
(* Numbers.  A float is modelled by the exact rational [n, d] it stands    *)
(* for, in lowest terms with d > 0; rounding is not modelled.              *)
(***************************************************************************)
Abs(x) == IF x < 0 THEN 0 - x ELSE x

RECURSIVE GCD(_, _)
GCD(a, b) == IF b = 0 THEN a ELSE GCD(b, a % b)

Rat(n, d) ==
    LET g == GCD(Abs(n), Abs(d))
        sign == IF d < 0 THEN 0 - 1 ELSE 1
    IN [n |-> sign * (n \div g), d |-> sign * (d \div g)]

Num(k) == [n |-> k, d |-> 1]

RAdd(x, y) ==
    LET g == GCD(x.d, y.d)
    IN Rat(x.n * (y.d \div g) + y.n * (x.d \div g), (x.d \div g) * y.d)
RMul(x, y) == Rat(x.n * y.n, x.d * y.d)
RDiv(x, y) == Rat(x.n * y.d, x.d * y.n)
RPositive(x) == x.n > 0
RLess(x, y) == x.n * y.d < y.n * x.d

(***************************************************************************)
(* finalize_distribution_segments(segments, max_supply_btc).               *)
(***************************************************************************)
RECURSIVE SumAmounts(_)
\* sum(s.amount_btc for s in segments)
SumAmounts(segs) ==
    IF segs = <<>> THEN Num(0)
    ELSE RAdd(SumAmounts(SubSeq(segs, 1, Len(segs) - 1)), segs[Len(segs)].amount_btc)

RECURSIVE SumPercents(_)
\* sum(s.percent for s in normalized)
SumPercents(segs) ==
    IF segs = <<>> THEN Num(0)
    ELSE RAdd(SumPercents(SubSeq(segs, 1, Len(segs) - 1)), segs[Len(segs)].percent)

\* mutant: the reference total is ignored
DenominatorSumOnly(segs, max_supply) ==
    IF ~RPositive(SumAmounts(segs)) THEN Num(1) ELSE SumAmounts(segs)

\* max_supply_btc if positive, else the sum of the amounts, else 1.0
Denominator(segs, max_supply) ==
    LET denominator == IF RPositive(max_supply) THEN max_supply ELSE SumAmounts(segs)
    IN IF ~RPositive(denominator) THEN Num(1) ELSE denominator

\* s.percent if s.percent > 0 else (s.amount_btc / denominator) * 100
DerivedPercent(s, denominator) ==
    IF RPositive(s.percent) THEN s.percent
    ELSE RMul(RDiv(s.amount_btc, denominator), Num(100))

Derived(segs, max_supply) ==
    [i \in 1..Len(segs) |->
        [segs[i] EXCEPT !.percent = DerivedPercent(segs[i], Denominator(segs, max_supply))]]

\* mutant: the percents are not rescaled
RescaledMissing(norm) == norm

\* (s.percent / total_percent) * 100 for every segment
Rescaled(norm) ==
    [i \in 1..Len(norm) |->
        [norm[i] EXCEPT !.percent = RMul(RDiv(norm[i].percent, SumPercents(norm)), Num(100))]]

RECURSIVE InsertByAmountTiesFirst(_, _)
\* mutant: s goes before the segments of the same amount
InsertByAmountTiesFirst(sorted, s) ==
    IF sorted = <<>> THEN <<s>>
    ELSE IF RLess(s.amount_btc, sorted[Len(sorted)].amount_btc) THEN Append(sorted, s)
    ELSE Append(InsertByAmountTiesFirst(SubSeq(sorted, 1, Len(sorted) - 1), s),
                sorted[Len(sorted)])

RECURSIVE InsertByAmount(_, _)
\* stable insertion, descending: s goes after every segment whose amount is >= s's
InsertByAmount(sorted, s) ==
    IF sorted = <<>> THEN <<s>>
    ELSE IF ~RLess(sorted[Len(sorted)].amount_btc, s.amount_btc) THEN Append(sorted, s)
    ELSE Append(InsertByAmount(SubSeq(sorted, 1, Len(sorted) - 1), s),
                sorted[Len(sorted)])

RECURSIVE SortByAmountDescending(_)
\* normalized.sort(key=lambda item: item.amount_btc, reverse=True)
SortByAmountDescending(norm) ==
    IF norm = <<>> THEN <<>>
    ELSE InsertByAmount(SortByAmountDescending(SubSeq(norm, 1, Len(norm) - 1)),
                        norm[Len(norm)])

finalize_distribution_segments(segs, max_supply) ==
    IF segs = <<>> THEN <<>>
    ELSE LET norm == Derived(segs, max_supply) IN
         SortByAmountDescending(
            IF RPositive(SumPercents(norm)) THEN Rescaled(norm) ELSE norm)

\* if not segments: return []
ReturnNoSegments ==
    /\ fd_pc = "start"
    /\ segments = <<>>
    /\ normalized' = <<>>
    /\ fd_pc' = "returned"
    /\ UNCHANGED <<segments, max_supply_btc, points_vars, render_vars, main_vars, other_vars>>

\* the denominator and the first list comprehension
DerivePercents ==
    /\ fd_pc = "start"
    /\ segments # <<>>
    /\ normalized' = Derived(segments, max_supply_btc)
    /\ fd_pc' = "derived"
    /\ UNCHANGED <<segments, max_supply_btc, points_vars, render_vars, main_vars, other_vars>>

\* if total_percent > 0: the second list comprehension
RescalePercents ==
    /\ fd_pc = "derived"
    /\ RPositive(SumPercents(normalized))
    /\ normalized' = Rescaled(normalized)
    /\ fd_pc' = "rescaled"
    /\ UNCHANGED <<segments, max_supply_btc, points_vars, render_vars, main_vars, other_vars>>

\* total_percent <= 0: the percents stay as derived
KeepPercents ==
    /\ fd_pc = "derived"
    /\ ~RPositive(SumPercents(normalized))
    /\ fd_pc' = "rescaled"
    /\ UNCHANGED <<segments, max_supply_btc, normalized, points_vars, render_vars, main_vars, other_vars>>

\* the sort and the return
SortSegments ==
    /\ fd_pc = "rescaled"
    /\ normalized' = SortByAmountDescending(normalized)
    /\ fd_pc' = "returned"
    /\ UNCHANGED <<segments, max_supply_btc, points_vars, render_vars, main_vars, other_vars>>

NextDistribution ==
    ReturnNoSegments \/ DerivePercents \/ RescalePercents \/ KeepPercents \/ SortSegments

(***************************************************************************)
(* parse_number(value, default).  float(text) is modelled on an optional   *)
(* sign, digits and an optional fraction; any other text is a ValueError.  *)
(***************************************************************************)
RECURSIVE Pow10(_)
Pow10(k) == IF k = 0 THEN 1 ELSE 10 * Pow10(k - 1)

\* text.replace(",", "")
RemoveCommas(t) == SelectSeq(t, LAMBDA c : c # ",")

AllDigits(t) == \A i \in 1..Len(t) : IsDigitChar(t[i])

\* float(text): [ok, value]
ParseFloat(text) ==
    LET signed == text # <<>> /\ text[1] \in {"+", "-"}
        body == IF signed THEN Tail(text) ELSE text
        dots == {i \in 1..Len(body) : body[i] = "."}
        k == IF dots = {} THEN 0 ELSE CHOOSE i \in dots : \A j \in dots : i <= j
        whole == IF k = 0 THEN body ELSE SubSeq(body, 1, k - 1)
        fraction == IF k = 0 THEN <<>> ELSE SubSeq(body, k + 1, Len(body))
        ok == /\ whole \o fraction # <<>>
              /\ AllDigits(whole)
              /\ AllDigits(fraction)
        magnitude == Rat(TextToNat(whole \o fraction), Pow10(Len(fraction)))
    IN IF ~ok THEN [ok |-> FALSE, value |-> Num(0)]
       ELSE [ok |-> TRUE,
             value |-> IF signed /\ text[1] = "-"
                       THEN Rat(0 - magnitude.n, magnitude.d) ELSE magnitude]

parse_number(value, default) ==
    LET text == RemoveCommas(normalize_text(value)) IN
    IF text = <<>> THEN default
    ELSE IF ParseFloat(text).ok THEN ParseFloat(text).value
    ELSE default

(***************************************************************************)
(* The default tables.                                                     *)
(***************************************************************************)
\* DEFAULT_META, as the list of its (key, value) items
DefaultMetaItems ==
    <<<<<<"e", "y", "e", "b", "r", "o", "w">>,
        <<"G", "l", "o", "b", "a", "l", "i", "t", "e", " ", "M", "a", "c",
          "r", "o", " ", "B", "r", "i", "e", "f">>>>,
      <<<<"m", "a", "i", "n", "_", "t", "i", "t", "l", "e">>,
        <<"W", "E", "E", "K", "L", "Y", " ", "T", "O", "P", " ", "1", "0",
          " ", "A", "R", "G", "U", "M", "E", "N", "T", "S">>>>,
      <<<<"s", "u", "b", "t", "i", "t", "l", "e">>,
        <<"A", " ", "c", "l", "e", "a", "r", " ", "w", "e", "e", "k", "l",
          "y", " ", "m", "a", "c", "r", "o", " ", "s", "u", "m", "m", "a",
          "r", "y", " ", "w", "i", "t", "h", " ", "t", "h", "e", " ", "k",
          "e", "y", " ", "a", "r", "g", "u", "m", "e", "n", "t", "s", " ",
          "t", "h", "a", "t", " ", "m", "a", "t", "t", "e", "r", ".">>>>,
      <<<<"b", "l", "o", "c", "k", "_", "h", "e", "i", "g", "h", "t">>,
        <<"9", "2", "5", "0", "0", "0">>>>,
      <<<<"m", "a", "x", "_", "s", "u", "p", "p", "l", "y", "_", "b", "t",
          "c">>,
        <<"2", "1", "0", "0", "0", "0", "0", "0">>>>,
      <<<<"c", "i", "r", "c", "u", "l", "a", "t", "i", "n", "g", "_", "s",
          "u", "p", "p", "l", "y", "_", "b", "t", "c">>,
        <<"1", "9", "9", "6", "0", "0", "0", "0">>>>,
      <<<<"h", "a", "s", "h", "r", "a", "t", "e", "_", "e", "h", "_", "s">>,
        <<"8", "2", "0">>>>,
      <<<<"h", "a", "s", "h", "r", "a", "t", "e", "_", "s", "c", "a", "l",
          "e", "_", "e", "h", "_", "s">>,
        <<"1", "0", "0", "0">>>>,
      <<<<"s", "n", "a", "p", "s", "h", "o", "t", "_", "t", "i", "t", "l",
          "e">>,
        <<"A", "t", " ", "T", "h", "e", " ", "T", "i", "m", "e", " ", "O",
          "f", " ", "W", "r", "i", "t", "i", "n", "g">>>>,
      <<<<"s", "n", "a", "p", "s", "h", "o", "t", "_", "i", "n", "t", "r",
          "o">>,
        <<"A", "t", " ", "t", "h", "e", " ", "t", "i", "m", "e", " ", "o",
          "f", " ", "w", "r", "i", "t", "i", "n", "g", ",", " ", "t", "h",
          "e", "s", "e", " ", "o", "n", "-", "c", "h", "a", "i", "n", " ",
          "s", "u", "p", "p", "l", "y", " ", "a", "n", "c", "h", "o", "r",
          "s", " ", "p", "r", "o", "v", "i", "d", "e", " ", "t", "h", "e",
          " ", "b", "a", "s", "e", "l", "i", "n", "e", " ", "c", "o", "n",
          "t", "e", "x", "t", ".">>>>,
      <<<<"s", "n", "a", "p", "s", "h", "o", "t", "_", "n", "o", "t", "e">>,
        <<"F", "i", "g", "u", "r", "e", "s", " ", "a", "r", "e", " ", "r",
          "o", "u", "n", "d", "e", "d", " ", "a", "n", "d", " ", "u", "p",
          "d", "a", "t", "e", "d", " ", "w", "i", "t", "h", " ", "e", "a",
          "c", "h", " ", "i", "s", "s", "u", "e", ".">>>>,
      <<<<"t", "l", "d", "r", "_", "t", "i", "t", "l", "e">>,
        <<"T", "L", ";", "D", "R">>>>,
      <<<<"t", "l", "d", "r", "_", "c", "o", "n", "t", "e", "n", "t">>,
        <<"L", "e", "v", "e", "r", "a", "g", "e", " ", "r", "e", "s", "e",
          "t", " ", "f", "i", "r", "s", "t", ",", " ", "l", "i", "q", "u",
          "i", "d", "i", "t", "y", " ", "e", "x", "p", "a", "n", "d", "e",
          "d", " ", "n", "e", "x", "t", ",", " ", "a", "n", "d", " ", "s",
          "t", "r", "u", "c", "t", "u", "r", "a", "l", " ", "a", "d", "o",
          "p", "t", "i", "o", "n", " ", "k", "e", "p", "t", " ", "b", "u",
          "i", "l", "d", "i", "n", "g", ".">>>>,
      <<<<"c", "o", "n", "c", "l", "u", "s", "i", "o", "n", "_", "t", "i",
          "t", "l", "e">>,
        <<"G", "L", "O", "B", "A", "L", "I", "T", "E", " ", "C", "O", "N",
          "C", "L", "U", "S", "I", "O", "N">>>>,
      <<<<"c", "o", "n", "c", "l", "u", "s", "i", "o", "n", "_", "c", "o",
          "n", "t", "e", "n", "t">>,
        <<"F", "o", "r", " ", "d", "e", "e", "p", "e", "r", " ", "c", "o",
          "n", "t", "e", "x", "t", " ", "o", "n", " ", "t", "h", "e", "s",
          "e", " ", "p", "o", "i", "n", "t", "s", ",", " ", "v", "i", "s",
          "i", "t", " ", "g", "l", "o", "b", "a", "l", "i", "t", "e", ".",
          "c", "o", ".", "\n", "O", "u", "r", " ", "t", "e", "a", "m", " ",
          "t", "r", "a", "c", "k", "s", " ", "m", "a", "c", "r", "o", " ",
          "s", "h", "i", "f", "t", "s", ",", " ", "l", "i", "q", "u", "i",
          "d", "i", "t", "y", ",", " ", "a", "n", "d", " ", "p", "o", "s",
          "i", "t", "i", "o", "n", "i", "n", "g", " ", "e", "v", "e", "r",
          "y", " ", "w", "e", "e", "k", ".">>>>,
      <<<<"c", "t", "a", "_", "u", "r", "l">>,
        <<"h", "t", "t", "p", "s", ":", "/", "/", "g", "l", "o", "b", "a",
          "l", "i", "t", "e", ".", "c", "o">>>>,
      <<<<"c", "t", "a", "_", "l", "a", "b", "e", "l">>,
        <<"g", "l", "o", "b", "a", "l", "i", "t", "e", ".", "c", "o">>>>,
      <<<<"a", "d", "d", "r", "e", "s", "s", "_", "l", "i", "n", "e">>,
        <<"G", "l", "o", "b", "a", "l", "i", "t", "e", ",", " ", "L", "u",
          "g", "a", "n", "o", ",", " ", "P", "i", "a", "z", "z", "a", " ",
          "d", "e", "l", "l", "'", "I", "n", "d", "i", "p", "e", "n", "d",
          "e", "n", "z", "a", " ", "3", ",", " ", "C", "A", "P", " ", "6",
          "9", "0", "1">>>>,
      <<<<"f", "o", "o", "t", "e", "r", "_", "l", "i", "n", "e">>,
        <<"G", "l", "o", "b", "a", "l", "i", "t", "e", " ", "M", "a", "c",
          "r", "o", " ", "B", "r", "i", "e", "f", " ", "-", " ", "F", "o",
          "r", " ", "i", "n", "t", "e", "r", "n", "a", "l", " ", "d", "i",
          "s", "t", "r", "i", "b", "u", "t", "i", "o", "n", ".">>>>,
      <<<<"f", "o", "o", "t", "e", "r", "_", "l", "o", "g", "o", "_", "u",
          "r", "l">>,
        <<"p", "u", "b", "l", "i", "c", "/", "l", "o", "g", "o", "t", "o",
          "s", "i", "t", "e", ".", "p", "n", "g">>>>,
      <<<<"f", "o", "o", "t", "e", "r", "_", "i", "n", "s", "t", "a", "g",
          "r", "a", "m", "_", "i", "c", "o", "n">>,
        <<"p", "u", "b", "l", "i", "c", "/", "i", "n", "s", "t", "a", "g",
          "r", "a", "m", ".", "p", "n", "g">>>>,
      <<<<"f", "o", "o", "t", "e", "r", "_", "x", "_", "i", "c", "o", "n">>,
        <<"p", "u", "b", "l", "i", "c", "/", "x", ":", "t", "w", "i", "t",
          "t", "e", "r", ".", "p", "n", "g">>>>,
      <<<<"f", "o", "o", "t", "e", "r", "_", "l", "i", "n", "k", "e", "d",
          "i", "n", "_", "i", "c", "o", "n">>,
        <<"p", "u", "b", "l", "i", "c", "/", "l", "i", "n", "k", "e", "d",
          "i", "n", ".", "p", "n", "g">>>>,
      <<<<"i", "m", "a", "g", "e", "_", "d", "i", "r">>,
        <<".">>>>,
      <<<<"a", "u", "t", "o", "_", "i", "m", "a", "g", "e", "_", "b", "y",
          "_", "o", "r", "d", "e", "r">>,
        <<"t", "r", "u", "e">>>>>>

\* DEFAULT_DISTRIBUTION
DefaultDistributionItems ==
    <<[category |-> <<"I", "n", "d", "i", "v", "i", "d", "u", "a", "l", "s">>,
       amount |-> 13660000,
       color |-> <<"r", "g", "b", "(", "2", "5", "5", ",", " ", "6", "6", ",", " ",
                  "2", ")">>],
      [category |-> <<"L", "o", "s", "t", " ", "B", "i", "t", "c", "o", "i", "n">>,
       amount |-> 1570000,
       color |-> <<"r", "g", "b", "(", "1", "5", "3", ",", " ", "1", "5", "3", ",",
                  " ", "1", "5", "3", ")">>],
      [category |-> <<"F", "u", "n", "d", "s", " ", "&", " ", "E", "T", "F", "s">>,
       amount |-> 1490000,
       color |-> <<"r", "g", "b", "(", "2", "5", "5", ",", " ", "1", "4", "0", ",",
                  " ", "9", "0", ")">>],
      [category |-> <<"B", "u", "s", "i", "n", "e", "s", "s", "e", "s">>,
       amount |-> 1390000,
       color |-> <<"r", "g", "b", "(", "2", "5", "5", ",", " ", "1", "0", "7", ",",
                  " ", "6", "1", ")">>],
      [category |-> <<"T", "o", " ", "B", "e", " ", "M", "i", "n", "e", "d">>,
       amount |-> 1040000,
       color |-> <<"r", "g", "b", "(", "2", "0", "4", ",", " ", "2", "0", "4", ",",
                  " ", "2", "0", "4", ")">>],
      [category |-> <<"S", "a", "t", "o", "s", "h", "i", " ", "/", " ", "P", "a", "t",
                    "o", "s", "h", "i">>,
       amount |-> 968000,
       color |-> <<"r", "g", "b", "(", "2", "5", "5", ",", " ", "2", "0", "0", ",",
                  " ", "1", "5", "0", ")">>],
      [category |-> <<"G", "o", "v", "e", "r", "n", "m", "e", "n", "t", "s">>,
       amount |-> 432000,
       color |-> <<"r", "g", "b", "(", "2", "5", "5", ",", " ", "1", "7", "3", ",",
                  " ", "1", "2", "0", ")">>],
      [category |-> <<"O", "t", "h", "e", "r", " ", "E", "n", "t", "i", "t", "i", "e",
                    "s">>,
       amount |-> 421000,
       color |-> <<"r", "g", "b", "(", "2", "5", "5", ",", " ", "2", "2", "7", ",",
                  " ", "1", "8", "0", ")">>]>>

\* a dict is a function from its keys; d[key] = value
DictSet(d, key, value) ==
    [k \in DOMAIN d \cup {key} |-> IF k = key THEN value ELSE d[k]]

EmptyDict == [k \in {} |-> <<>>]

DEFAULT_META ==
    [k \in {DefaultMetaItems[i][1] : i \in 1..Len(DefaultMetaItems)} |->
        DefaultMetaItems[CHOOSE i \in 1..Len(DefaultMetaItems) :
                             DefaultMetaItems[i][1] = k][2]]

(***************************************************************************)
(* read_meta(meta_sheet), on the data rows [key, value].                   *)
(***************************************************************************)
RECURSIVE MetaRows(_)
\* the dict after the loop over the rows
MetaRows(rows) ==
    IF rows = <<>> THEN EmptyDict
    ELSE LET before == MetaRows(SubSeq(rows, 1, Len(rows) - 1))
             key == normalize_text(rows[Len(rows)].key)
             value == normalize_text(rows[Len(rows)].value)
         IN IF key # <<>> THEN DictSet(before, key, value) ELSE before

\* mutant: the defaults replace the values read from the sheet
SetDefaultsOverwriting(data) ==
    [k \in DOMAIN data \cup DOMAIN DEFAULT_META |->
        IF k \in DOMAIN DEFAULT_META THEN DEFAULT_META[k] ELSE data[k]]

\* meta.setdefault(key, value) for every default
SetDefaults(data) ==
    [k \in DOMAIN data \cup DOMAIN DEFAULT_META |->
        IF k \in DOMAIN data THEN data[k] ELSE DEFAULT_META[k]]

read_meta(rows) == SetDefaults(MetaRows(rows))

\* everything read_meta leaves alone
MetaUnchanged ==
    UNCHANGED <<points_vars, dist_vars, render_vars, pc, source, meta_rows,
                distribution_rows, distribution, history, backup_path, out_file, completed,
                error, sheet_vars, emphasize_vars, image_vars>>

AtMetaRow == rm_pc = "loop" /\ rm_index <= Len(meta_rows)

\* if key: meta[key] = value
MetaSetKey ==
    /\ AtMetaRow
    /\ normalize_text(meta_rows[rm_index].key) # <<>>
    /\ meta' = DictSet(meta, normalize_text(meta_rows[rm_index].key),
                       normalize_text(meta_rows[rm_index].value))
    /\ rm_index' = rm_index + 1
    /\ UNCHANGED rm_pc
    /\ MetaUnchanged

\* the key is blank: the row is passed over
MetaSkipBlankKey ==
    /\ AtMetaRow
    /\ normalize_text(meta_rows[rm_index].key) = <<>>
    /\ rm_index' = rm_index + 1
    /\ UNCHANGED <<rm_pc, meta>>
    /\ MetaUnchanged

\* the setdefault loop and the return
MetaFillDefaults ==
    /\ rm_pc = "loop"
    /\ rm_index > Len(meta_rows)
    /\ meta' = SetDefaults(meta)
    /\ rm_pc' = "returned"
    /\ UNCHANGED rm_index
    /\ MetaUnchanged

NextMeta == MetaSetKey \/ MetaSkipBlankKey \/ MetaFillDefaults

(***************************************************************************)
(* default_distribution_segments and read_distribution, on the data rows   *)
(* [category, amount_btc, percent, color] (a sheet without a percent       *)
(* column has None there).                                                 *)
(***************************************************************************)
FallbackColor ==
    <<"r", "g", "b", "(", "2", "5", "5", ",", " ", "6", "6", ",", " ", "2", ")">>

\* base: one segment per item of DEFAULT_DISTRIBUTION, percent 0.0
DefaultBase ==
    [i \in 1..Len(DefaultDistributionItems) |->
        [category |-> DefaultDistributionItems[i].category,
         amount_btc |-> Num(DefaultDistributionItems[i].amount),
         percent |-> Num(0),
         color |-> DefaultDistributionItems[i].color]]

\* mutant: base is returned as it is, never finalized
DefaultNotFinalized(max_supply) == DefaultBase

default_distribution_segments(max_supply) ==
    finalize_distribution_segments(DefaultBase, max_supply)

\* the fields of a row, as the loop body computes them
DistributionRow(row) ==
    [category |-> normalize_text(row.category),
     amount_btc |-> parse_number(row.amount_btc, Num(0)),
     color |-> IF normalize_text(row.color) # <<>>
               THEN normalize_text(row.color) ELSE FallbackColor,
     percent |-> parse_number(row.percent, Num(0))]

\* the row is skipped: blank category and amount <= 0
IsSkippedSegment(r) == r.category = <<>> /\ ~RPositive(r.amount_btc)

\* mutant: a negative amount is not an error
SegmentErrorMissingOnly(r) ==
    IF r.category = <<>> THEN ListError("missing_category", <<>>) ELSE NoError

\* the error a row raises, or NoError
SegmentError(r) ==
    IF r.category = <<>> THEN ListError("missing_category", <<>>)
    ELSE IF RLess(r.amount_btc, Num(0))
    THEN ListError("negative_amount", <<r.category>>)
    ELSE NoError

RECURSIVE DistributionLoop(_, _)
\* the loop over the data rows: [segments, error]
DistributionLoop(rows, segs) ==
    IF rows = <<>> THEN [segments |-> segs, error |-> NoError]
    ELSE LET r == DistributionRow(rows[1]) IN
         IF IsSkippedSegment(r) THEN DistributionLoop(Tail(rows), segs)
         ELSE IF SegmentError(r) # NoError
         THEN [segments |-> segs, error |-> SegmentError(r)]
         ELSE DistributionLoop(Tail(rows), Append(segs, r))

read_distribution(rows, max_supply) ==
    LET loop == DistributionLoop(rows, <<>>) IN
    IF loop.error # NoError THEN [segments |-> <<>>, error |-> loop.error]
    ELSE IF loop.segments = <<>>
    THEN [segments |-> default_distribution_segments(max_supply), error |-> NoError]
    ELSE [segments |-> finalize_distribution_segments(loop.segments, max_supply),
          error |-> NoError]

(***************************************************************************)
(* render_content_blocks(raw).  A block is [tag, text]: "<ul>" and "</ul>" *)
(* with no text, "<li>" and "<p>" with the text handed to                  *)
(* emphasize_numbers.                                                      *)
(***************************************************************************)
RECURSIVE ReplaceCRLF(_)
\* raw.replace("\r\n", "\n")
ReplaceCRLF(t) ==
    IF t = <<>> THEN <<>>
    ELSE IF Len(t) >= 2 /\ t[1] = "\r" /\ t[2] = "\n"
    THEN <<"\n">> \o ReplaceCRLF(SubSeq(t, 3, Len(t)))
    ELSE <<t[1]>> \o ReplaceCRLF(Tail(t))

RECURSIVE SplitLines(_)
\* text.split("\n")
SplitLines(t) ==
    IF \A i \in 1..Len(t) : t[i] # "\n" THEN <<t>>
    ELSE LET k == CHOOSE i \in 1..Len(t) :
                      t[i] = "\n" /\ \A j \in 1..i - 1 : t[j] # "\n"
         IN <<SubSeq(t, 1, k - 1)>> \o SplitLines(SubSeq(t, k + 1, Len(t)))

\* mutant: only "- " marks a list item
IsBulletLineDashOnly(line) ==
    Len(line) >= 2 /\ line[1] = "-" /\ line[2] = " "

\* line.startswith("- ") or line.startswith("* ")
IsBulletLine(line) ==
    \/ Len(line) >= 2 /\ line[1] = "-" /\ line[2] = " "
    \/ Len(line) >= 2 /\ line[1] = "*" /\ line[2] = " "

\* line[2:].strip()
ItemText(line) == Strip(SubSeq(line, 3, Len(line)))

Block(tag, text) == [tag |-> tag, text |-> text]

\* mutant: close_list without its `if list_open`
CloseListUnguarded(bs, open) == Append(bs, Block("</ul>", <<>>))

\* close_list(): the blocks afterwards
CloseList(bs, open) ==
    IF open THEN Append(bs, Block("</ul>", <<>>)) ELSE bs

\* lines = raw.replace("\r\n", "\n").split("\n")
StartRender ==
    /\ rc_pc = "start"
    /\ lines' = SplitLines(ReplaceCRLF(raw))
    /\ rc_pc' = "loop"
    /\ UNCHANGED <<raw, line_index, blocks, list_open, points_vars, dist_vars, main_vars, other_vars>>

AtLine == rc_pc = "loop" /\ line_index <= Len(lines)
CurrentLine == Strip(lines[line_index])

\* if not line: close_list(); continue
RenderBlankLine ==
    /\ AtLine
    /\ CurrentLine = <<>>
    /\ blocks' = CloseList(blocks, list_open)
    /\ list_open' = FALSE
    /\ line_index' = line_index + 1
    /\ UNCHANGED <<raw, lines, rc_pc, points_vars, dist_vars, main_vars, other_vars>>

\* a list item, after "<ul>" if no list is open
RenderBulletLine ==
    /\ AtLine
    /\ CurrentLine # <<>>
    /\ IsBulletLine(CurrentLine)
    /\ blocks' = Append(IF list_open THEN blocks ELSE Append(blocks, Block("<ul>", <<>>)),
                        Block("<li>", ItemText(CurrentLine)))
    /\ list_open' = TRUE
    /\ line_index' = line_index + 1
    /\ UNCHANGED <<raw, lines, rc_pc, points_vars, dist_vars, main_vars, other_vars>>

\* close_list() and a paragraph
RenderParagraphLine ==
    /\ AtLine
    /\ CurrentLine # <<>>
    /\ ~IsBulletLine(CurrentLine)
    /\ blocks' = Append(CloseList(blocks, list_open), Block("<p>", CurrentLine))
    /\ list_open' = FALSE
    /\ line_index' = line_index + 1
    /\ UNCHANGED <<raw, lines, rc_pc, points_vars, dist_vars, main_vars, other_vars>>

\* after the loop: close_list() and the return
FinishRender ==
    /\ rc_pc = "loop"
    /\ line_index > Len(lines)
    /\ blocks' = CloseList(blocks, list_open)
    /\ list_open' = FALSE
    /\ rc_pc' = "returned"
    /\ UNCHANGED <<raw, lines, line_index, points_vars, dist_vars, main_vars, other_vars>>

NextRender ==
    StartRender \/ RenderBlankLine \/ RenderBulletLine \/ RenderParagraphLine
        \/ FinishRender

(***************************************************************************)
(* emphasize_numbers(text) and NUMBER_PATTERN.  A match of the pattern at  *)
(* position p is found as the backtracking matcher finds it: the first     *)
(* alternative before the second, every repetition longest first, the      *)
(* optional parts tried before they are left out.  A position past a match *)
(* is the index of the character after it; 0 means no match.               *)
(***************************************************************************)
\* \w, on the characters of the model: letters, digits and the underscore
IsWordChar(c) ==
    \/ IsDigitChar(c)
    \/ c = "_"
    \/ \E i \in 1..26 : c = UpperLetters[i] \/ c = LowerLetters[i]

RECURSIVE DigitsRun(_, _)
\* the number of digits of t from position p on
DigitsRun(t, p) ==
    IF p <= Len(t) /\ IsDigitChar(t[p]) THEN 1 + DigitsRun(t, p + 1) ELSE 0

RECURSIVE GroupsRun(_, _)
\* the number of consecutive groups ,\d{3} of t from position p on
GroupsRun(t, p) ==
    IF /\ p + 3 <= Len(t)
       /\ t[p] = ","
       /\ IsDigitChar(t[p + 1]) /\ IsDigitChar(t[p + 2]) /\ IsDigitChar(t[p + 3])
    THEN 1 + GroupsRun(t, p + 4)
    ELSE 0

\* mutant: no lookbehind
LookBehindAny(t, p) == TRUE

\* (?<!\w)
LookBehind(t, p) == p = 1 \/ ~IsWordChar(t[p - 1])

\* (?!\w)
LookAhead(t, p) == p > Len(t) \/ ~IsWordChar(t[p])

Max(S) == CHOOSE x \in S : \A y \in S : y <= x

\* (?:[kKmMbBtT%])?(?!\w) from position p
MatchSuffix(t, p) ==
    IF /\ p <= Len(t)
       /\ t[p] \in {"k", "K", "m", "M", "b", "B", "t", "T", "%"}
       /\ LookAhead(t, p + 1)
    THEN p + 1
    ELSE IF LookAhead(t, p) THEN p
    ELSE 0

\* (?:\.\d+)? and what follows, from position p
MatchFraction(t, p) ==
    LET lengths == IF p <= Len(t) /\ t[p] = "."
                   THEN {f \in 1..DigitsRun(t, p + 1) : MatchSuffix(t, p + 1 + f) # 0}
                   ELSE {}
    IN IF lengths # {} THEN MatchSuffix(t, p + 1 + Max(lengths))
       ELSE MatchSuffix(t, p)

\* \d{1,3}(?:,\d{3})+ and what follows: n digits and k groups, n and then k as
\* large as the rest of the pattern allows
MatchGrouped(t, p) ==
    LET ways == {w \in (1..3) \X (1..Len(t)) :
                    /\ w[1] <= DigitsRun(t, p)
                    /\ w[2] <= GroupsRun(t, p + w[1])
                    /\ MatchFraction(t, p + w[1] + 4 * w[2]) # 0}
        n == Max({w[1] : w \in ways})
        k == Max({w[2] : w \in {v \in ways : v[1] = n}})
    IN IF ways = {} THEN 0 ELSE MatchFraction(t, p + n + 4 * k)

\* \d+ and what follows
MatchPlain(t, p) ==
    LET lengths == {m \in 1..DigitsRun(t, p) : MatchFraction(t, p + m) # 0}
    IN IF lengths = {} THEN 0 ELSE MatchFraction(t, p + Max(lengths))

\* NUMBER_PATTERN at position p
MatchAt(t, p) ==
    IF ~LookBehind(t, p) THEN 0
    ELSE IF MatchGrouped(t, p) # 0 THEN MatchGrouped(t, p)
    ELSE MatchPlain(t, p)

\* finditer: the start of the first match at or after position p; 0 if none
NextMatch(t, p) ==
    LET starts == {q \in p..Len(t) : MatchAt(t, q) # 0}
    IN IF starts = {} THEN 0 ELSE CHOOSE q \in starts : \A r \in starts : q <= r

\* html.escape of one character
EscapeChar(c) ==
    IF c = "&" THEN <<"&", "a", "m", "p", ";">>
    ELSE IF c = "<" THEN <<"&", "l", "t", ";">>
    ELSE IF c = ">" THEN <<"&", "g", "t", ";">>
    ELSE IF c = "\"" THEN <<"&", "q", "u", "o", "t", ";">>
    ELSE IF c = "'" THEN <<"&", "#", "x", "2", "7", ";">>
    ELSE <<c>>

RECURSIVE Escape(_)
\* html.escape(text)
Escape(t) == IF t = <<>> THEN <<>> ELSE EscapeChar(t[1]) \o Escape(Tail(t))

\* a part appended to output: the escaped text[from..to], in <strong> or not
Part(t, strong, from, to) ==
    [strong |-> strong, from |-> from, to |-> to, text |-> Escape(SubSeq(t, from, to))]

\* everything emphasize_numbers leaves alone
EmphasizeUnchanged ==
    UNCHANGED <<points_vars, dist_vars, render_vars, main_vars, sheet_vars,
                meta_vars, image_vars, em_text>>

\* the loop body, for the next match of finditer
EmphasizeMatch ==
    /\ em_pc = "scan"
    /\ NextMatch(em_text, em_pos) # 0
    /\ LET from == NextMatch(em_text, em_pos)
           end == MatchAt(em_text, from)
       IN /\ em_output' = em_output \o <<Part(em_text, FALSE, em_start, from - 1),
                                          Part(em_text, TRUE, from, end - 1)>>
          /\ em_start' = end
          /\ em_pos' = end
    /\ UNCHANGED em_pc
    /\ EmphasizeUnchanged

\* no further match: output.append(html.escape(text[start:])) and the return
EmphasizeRest ==
    /\ em_pc = "scan"
    /\ NextMatch(em_text, em_pos) = 0
    /\ em_output' = Append(em_output, Part(em_text, FALSE, em_start, Len(em_text)))
    /\ em_pc' = "returned"
    /\ UNCHANGED <<em_start, em_pos>>
    /\ EmphasizeUnchanged

NextEmphasize == EmphasizeMatch \/ EmphasizeRest

RECURSIVE JoinParts(_)
\* "".join(output)
JoinParts(parts) ==
    IF parts = <<>> THEN <<>>
    ELSE (IF parts[1].strong
          THEN <<"<", "s", "t", "r", "o", "n", "g", ">">> \o parts[1].text \o <<"<", "/", "s", "t", "r", "o", "n", "g", ">">>
          ELSE parts[1].text) \o JoinParts(Tail(parts))

\* emphasize_numbers(text), as the list of its parts
RECURSIVE EmphasizeFrom(_, _)
EmphasizeFrom(t, start) ==
    LET from == NextMatch(t, start) IN
    IF from = 0 THEN <<Part(t, FALSE, start, Len(t))>>
    ELSE <<Part(t, FALSE, start, from - 1), Part(t, TRUE, from, MatchAt(t, from) - 1)>>
         \o EmphasizeFrom(t, MatchAt(t, from))

emphasize_numbers(t) == JoinParts(EmphasizeFrom(t, 1))

(***************************************************************************)
(* resolve_image_path and resolve_extra_image_paths.  The file system is   *)
(* the set `files` of the paths that exist, a relative path being relative *)
(* to the output directory; every existence check is recorded in `probed`. *)
(***************************************************************************)
\* parse_bool(value)
parse_bool(value) ==
    Lower(normalize_text(value)) \in {<<"1">>, <<"t", "r", "u", "e">>, <<"y", "e", "s">>, <<"y">>, <<"o", "n">>}

\* meta.get(key, default)
MetaGet(m, key, default) == IF key \in DOMAIN m THEN m[key] ELSE default

\* parse_bool(meta.get("auto_image_by_order", "true"))
AutoImageByOrder(m) ==
    parse_bool(StrCell(MetaGet(m, <<"a", "u", "t", "o", "_", "i", "m", "a", "g", "e", "_", "b", "y", "_", "o", "r", "d", "e", "r">>, <<"t", "r", "u", "e">>)))

\* normalize_text(meta.get("image_dir", ".")) or "."
ImageDir(m) ==
    LET dir == normalize_text(StrCell(MetaGet(m, <<"i", "m", "a", "g", "e", "_", "d", "i", "r">>, <<".">>)))
    IN IF dir # <<>> THEN dir ELSE <<".">>

\* (Path(image_dir) / filename).as_posix(), for a directory written without
\* a trailing slash
JoinPath(dir, filename) ==
    IF dir = <<".">> THEN filename ELSE dir \o <<"/">> \o filename

Extensions == <<<<"p", "n", "g">>, <<"j", "p", "g">>, <<"j", "p", "e", "g">>, <<"w", "e", "b", "p">>>>

\* the relative candidate "<order>.<extension>" under the image directory
OrderCandidate(m, order, i) ==
    JoinPath(ImageDir(m), IntToText(order) \o <<".">> \o Extensions[i])

StartsWith(t, prefix) ==
    Len(t) >= Len(prefix) /\ SubSeq(t, 1, Len(prefix)) = prefix

\* mutant: only http and https sources count as remote
LooksRemoteHttpOnly(path) ==
    \E prefix \in {<<"h", "t", "t", "p", ":", "/", "/">>, <<"h", "t", "t", "p", "s", ":", "/", "/">>} : StartsWith(path, prefix)

looks_like_remote_image_source(path) ==
    \E prefix \in {<<"h", "t", "t", "p", ":", "/", "/">>, <<"h", "t", "t", "p", "s", ":", "/", "/">>, <<"d", "a", "t", "a", ":">>, <<"c", "i", "d", ":">>} :
        StartsWith(path, prefix)

\* (output_dir / path).exists(), or Path(path).exists() for an absolute path
Exists(path) == path \in files

\* everything the image functions leave alone
ImageUnchanged ==
    UNCHANGED <<points_vars, dist_vars, render_vars, main_vars, sheet_vars,
                meta_vars, emphasize_vars, point, files>>

\* if image_path: candidate = image_path
ImageExplicit ==
    /\ img_pc = "start"
    /\ normalize_text(StrCell(point.image_path)) # <<>>
    /\ candidate' = normalize_text(StrCell(point.image_path))
    /\ img_pc' = "check"
    /\ UNCHANGED <<probed, probe_index, extra_index, image_src, sources>>
    /\ ImageUnchanged

\* image_path is blank and auto_image_by_order is off: return ""
ImageAutoOff ==
    /\ img_pc = "start"
    /\ normalize_text(StrCell(point.image_path)) = <<>>
    /\ ~AutoImageByOrder(meta)
    /\ image_src' = <<>>
    /\ img_pc' = "resolved"
    /\ UNCHANGED <<probed, probe_index, extra_index, candidate, sources>>
    /\ ImageUnchanged

\* image_path is blank and auto_image_by_order is on: the candidates are built
ImageAutoStart ==
    /\ img_pc = "start"
    /\ normalize_text(StrCell(point.image_path)) = <<>>
    /\ AutoImageByOrder(meta)
    /\ probe_index' = 1
    /\ img_pc' = "probe"
    /\ UNCHANGED <<probed, extra_index, candidate, image_src, sources>>
    /\ ImageUnchanged

\* the candidate does not exist: the loop goes on
ProbeMiss ==
    /\ img_pc = "probe"
    /\ probe_index <= Len(Extensions)
    /\ ~Exists(OrderCandidate(meta, point.order, probe_index))
    /\ probed' = Append(probed, OrderCandidate(meta, point.order, probe_index))
    /\ probe_index' = probe_index + 1
    /\ UNCHANGED <<img_pc, extra_index, candidate, image_src, sources>>
    /\ ImageUnchanged

\* the candidate exists: candidate = relative_candidate; break
ProbeHit ==
    /\ img_pc = "probe"
    /\ probe_index <= Len(Extensions)
    /\ Exists(OrderCandidate(meta, point.order, probe_index))
    /\ probed' = Append(probed, OrderCandidate(meta, point.order, probe_index))
    /\ candidate' = OrderCandidate(meta, point.order, probe_index)
    /\ img_pc' = "check"
    /\ UNCHANGED <<probe_index, extra_index, image_src, sources>>
    /\ ImageUnchanged

\* if not candidate: return ""
ProbesExhausted ==
    /\ img_pc = "probe"
    /\ probe_index > Len(Extensions)
    /\ image_src' = <<>>
    /\ img_pc' = "resolved"
    /\ UNCHANGED <<probed, probe_index, extra_index, candidate, sources>>
    /\ ImageUnchanged

\* if looks_like_remote_image_source(candidate): return candidate
ReturnRemote ==
    /\ img_pc = "check"
    /\ looks_like_remote_image_source(candidate)
    /\ image_src' = candidate
    /\ img_pc' = "resolved"
    /\ UNCHANGED <<probed, probe_index, extra_index, candidate, sources>>
    /\ ImageUnchanged

\* return candidate if it exists (absolute, or under output_dir) else ""
CheckLocal ==
    /\ img_pc = "check"
    /\ ~looks_like_remote_image_source(candidate)
    /\ probed' = Append(probed, candidate)
    /\ image_src' = IF Exists(candidate) THEN candidate ELSE <<>>
    /\ img_pc' = "resolved"
    /\ UNCHANGED <<probe_index, extra_index, candidate, sources>>
    /\ ImageUnchanged

NextImage ==
    \/ ImageExplicit \/ ImageAutoOff \/ ImageAutoStart
    \/ ProbeMiss \/ ProbeHit \/ ProbesExhausted
    \/ ReturnRemote \/ CheckLocal

\* int(x): the fraction is dropped
IntTrunc(x) == IF x.n >= 0 THEN x.n \div x.d ELSE 0 - ((0 - x.n) \div x.d)

\* the default of max_extra_images
DefaultMaxExtraImages == 10

\* the largest number of extra images ever probed
MaxExtraImagesLimit == 20

\* mutant: the configured maximum has no upper limit
MaxExtraImagesUnclamped(m) ==
    LET n == IntTrunc(parse_number(StrCell(MetaGet(m, <<"m", "a", "x", "_", "e", "x", "t", "r", "a", "_", "i", "m", "a", "g", "e", "s">>, <<"1", "0">>)),
                                   Num(DefaultMaxExtraImages)))
    IN IF n < 0 THEN 0 ELSE n

\* max(0, min(20, int(parse_number(meta.get("max_extra_images", "10"), 10))))
max_extra_images(m) ==
    LET n == IntTrunc(parse_number(StrCell(MetaGet(m, <<"m", "a", "x", "_", "e", "x", "t", "r", "a", "_", "i", "m", "a", "g", "e", "s">>, <<"1", "0">>)),
                                   Num(DefaultMaxExtraImages)))
        capped == IF n > MaxExtraImagesLimit THEN MaxExtraImagesLimit ELSE n
    IN IF capped < 0 THEN 0 ELSE capped

\* the candidate "<order>.<index>.<extension>" under the image directory
ExtraCandidate(m, order, index, i) ==
    JoinPath(ImageDir(m),
             IntToText(order) \o <<".">> \o IntToText(index) \o <<".">> \o Extensions[i])

\* the extensions of the index that exist
ExtraHits(m, order, index) ==
    {i \in 1..Len(Extensions) : Exists(ExtraCandidate(m, order, index, i))}

\* if not parse_bool(...): return []
ExtraAutoOff ==
    /\ img_pc = "extra_start"
    /\ ~AutoImageByOrder(meta)
    /\ sources' = <<>>
    /\ img_pc' = "returned"
    /\ UNCHANGED <<probed, probe_index, extra_index, candidate, image_src>>
    /\ ImageUnchanged

\* image_dir, max_extra_images, extensions and sources are set up
ExtraStart ==
    /\ img_pc = "extra_start"
    /\ AutoImageByOrder(meta)
    /\ sources' = <<>>
    /\ extra_index' = 1
    /\ img_pc' = "extra"
    /\ UNCHANGED <<probed, probe_index, candidate, image_src>>
    /\ ImageUnchanged

\* one index of the outer loop, an extension of it exists: the extensions are
\* probed up to the first that exists, which is appended
ExtraIndexHit ==
    /\ img_pc = "extra"
    /\ extra_index <= max_extra_images(meta)
    /\ ExtraHits(meta, point.order, extra_index) # {}
    /\ LET hit == CHOOSE i \in ExtraHits(meta, point.order, extra_index) :
                     \A j \in ExtraHits(meta, point.order, extra_index) : i <= j
       IN /\ probed' = probed \o [i \in 1..hit |->
                                     ExtraCandidate(meta, point.order, extra_index, i)]
          /\ sources' = Append(sources,
                               ExtraCandidate(meta, point.order, extra_index, hit))
    /\ extra_index' = extra_index + 1
    /\ UNCHANGED <<img_pc, probe_index, candidate, image_src>>
    /\ ImageUnchanged

\* one index of the outer loop, no extension of it exists
ExtraIndexMiss ==
    /\ img_pc = "extra"
    /\ extra_index <= max_extra_images(meta)
    /\ ExtraHits(meta, point.order, extra_index) = {}
    /\ probed' = probed \o [i \in 1..Len(Extensions) |->
                               ExtraCandidate(meta, point.order, extra_index, i)]
    /\ extra_index' = extra_index + 1
    /\ UNCHANGED <<img_pc, probe_index, candidate, image_src, sources>>
    /\ ImageUnchanged

\* the range is exhausted: return sources
ExtraDone ==
    /\ img_pc = "extra"
    /\ extra_index > max_extra_images(meta)
    /\ img_pc' = "returned"
    /\ UNCHANGED <<probed, probe_index, extra_index, candidate, image_src, sources>>
    /\ ImageUnchanged

NextExtraImages ==
    ExtraAutoOff \/ ExtraStart \/ ExtraIndexHit \/ ExtraIndexMiss \/ ExtraDone

(***************************************************************************)
(* main: a build run.  Each action is one statement group of main; a step  *)
(* that raises ends the run in "failed" (the handler at the bottom of the  *)
(* file prints the error and exits 1).                                     *)
(***************************************************************************)
MaxSupplyKey ==
    <<"m", "a", "x", "_", "s", "u", "p", "p", "l", "y", "_", "b", "t", "c">>

MainUnchanged == UNCHANGED <<row_number, rp_pc, dist_vars, render_vars, other_vars>>

Fail(step) ==
    /\ pc' = "failed"
    /\ error' = ListError(step, <<>>)

Complete(step, next) ==
    /\ pc' = next
    /\ completed' = Append(completed, step)
    /\ error' = error

\* the workbook exists / the three tabs are fetched
LoadSource ==
    /\ pc = "load"
    /\ source.available
    /\ Complete("load", "snapshot")
    /\ UNCHANGED <<source, meta_rows, distribution_rows, meta, distribution,
                   history, backup_path, out_file, points_sheet, points, rp_error>>
    /\ MainUnchanged

\* FileNotFoundError, or fetch_google_sheet_rows raises
LoadSourceFails ==
    /\ pc = "load"
    /\ ~source.available
    /\ Fail("load")
    /\ UNCHANGED <<source, meta_rows, distribution_rows, meta, distribution,
                   history, backup_path, out_file, completed, points_sheet, points, rp_error>>
    /\ MainUnchanged

\* backup_path before next_history_workbook_path is called
NoPath == "none"

\* an empty history directory
NoSnapshots == [name \in {} |-> "earlier"]

\* newsletter_<%Y-%m-%d_%H%M>.xlsx and newsletter_<%Y-%m-%d_%H%M%S>.xlsx at
\* the time of the run
MinuteName == "minute"
SecondName == "second"

\* the history directories a run may find: empty, a snapshot of the same
\* minute, snapshots of the same minute and the same second
EarlierSnapshots ==
    {NoSnapshots,
     [name \in {MinuteName} |-> "earlier"],
     [name \in {MinuteName, SecondName} |-> "earlier"]}

\* the minute name, or the second name if the minute name exists
next_history_workbook_path(dir) ==
    IF MinuteName \in DOMAIN dir THEN SecondName ELSE MinuteName

\* the directory after a file is written (created or overwritten)
WriteFile(dir, name, content) ==
    [n \in DOMAIN dir \cup {name} |-> IF n = name THEN content ELSE dir[n]]

\* what the snapshot holds: a copy of the workbook, or the fetched rows
SnapshotContent == IF source.kind = "xlsx" THEN "copy" ELSE "rows"

\* mutant: the path is chosen but nothing is saved
WriteSnapshotNotSaved ==
    /\ pc = "snapshot"
    /\ backup_path' = next_history_workbook_path(history)
    /\ history' = history
    /\ Complete("snapshot", IF source.kind = "xlsx" THEN "open" ELSE "meta")
    /\ UNCHANGED <<source, meta_rows, distribution_rows, meta, distribution,
                   out_file, points_sheet, points, rp_error>>
    /\ MainUnchanged

\* history_dir.mkdir, next_history_workbook_path, then shutil.copy2 /
\* write_google_snapshot_workbook
WriteSnapshot ==
    /\ pc = "snapshot"
    /\ backup_path' = next_history_workbook_path(history)
    /\ history' = WriteFile(history, next_history_workbook_path(history),
                            SnapshotContent)
    /\ Complete("snapshot", IF source.kind = "xlsx" THEN "open" ELSE "meta")
    /\ UNCHANGED <<source, meta_rows, distribution_rows, meta, distribution,
                   out_file, points_sheet, points, rp_error>>
    /\ MainUnchanged

\* mkdir, copy2 or save raises: no file, or a file cut short
WriteSnapshotFails ==
    /\ pc = "snapshot"
    /\ Fail("snapshot")
    /\ backup_path' = next_history_workbook_path(history)
    /\ history' \in {history,
                     WriteFile(history, next_history_workbook_path(history),
                               "partial")}
    /\ UNCHANGED <<source, meta_rows, distribution_rows, meta, distribution,
                   out_file, completed, points_sheet, points, rp_error>>
    /\ MainUnchanged

\* load_workbook and the two required sheets
OpenWorkbook ==
    /\ pc = "open"
    /\ {"meta", "points"} \subseteq source.sheets
    /\ Complete("open", "meta")
    /\ UNCHANGED <<source, meta_rows, distribution_rows, meta, distribution,
                   history, backup_path, out_file, points_sheet, points, rp_error>>
    /\ MainUnchanged

\* "Workbook is missing required sheet"
OpenWorkbookFails ==
    /\ pc = "open"
    /\ ~({"meta", "points"} \subseteq source.sheets)
    /\ Fail("open")
    /\ UNCHANGED <<source, meta_rows, distribution_rows, meta, distribution,
                   history, backup_path, out_file, completed, points_sheet, points, rp_error>>
    /\ MainUnchanged

\* meta = read_meta(...)
ReadMeta ==
    /\ pc = "meta"
    /\ meta' = read_meta(meta_rows)
    /\ Complete("meta", "points")
    /\ UNCHANGED <<source, meta_rows, distribution_rows, distribution,
                   history, backup_path, out_file, points_sheet, points, rp_error>>
    /\ MainUnchanged

\* points = read_points(...), returning
ReadPoints ==
    /\ pc = "points"
    /\ read_points(points_sheet).error = NoError
    /\ points' = read_points(points_sheet).points
    /\ Complete("points", "distribution")
    /\ UNCHANGED <<source, meta_rows, distribution_rows, meta, distribution,
                   history, backup_path, out_file, points_sheet, rp_error>>
    /\ MainUnchanged

\* read_points raises
ReadPointsFails ==
    /\ pc = "points"
    /\ read_points(points_sheet).error # NoError
    /\ rp_error' = read_points(points_sheet).error
    /\ Fail("points")
    /\ UNCHANGED <<source, meta_rows, distribution_rows, meta, distribution,
                   history, backup_path, out_file, completed, points_sheet, points>>
    /\ MainUnchanged

\* max_supply_btc = parse_number(meta["max_supply_btc"], default=21_000_000)
MainMaxSupply == parse_number(StrCell(meta[MaxSupplyKey]), Num(21000000))

\* the distribution the run would use: read_distribution on the sheet if
\* there is one, else default_distribution_segments
MainDistribution ==
    IF "distribution" \in source.sheets
    THEN read_distribution(distribution_rows, MainMaxSupply)
    ELSE [segments |-> default_distribution_segments(MainMaxSupply),
          error |-> NoError]

ReadDistribution ==
    /\ pc = "distribution"
    /\ MainDistribution.error = NoError
    /\ max_supply_btc' = MainMaxSupply
    /\ distribution' = MainDistribution.segments
    /\ Complete("distribution", "render")
    /\ UNCHANGED <<source, meta_rows, distribution_rows, meta, history, backup_path, out_file,
                   points_sheet, points, rp_error>>
    /\ UNCHANGED <<row_number, rp_pc, segments, fd_pc, normalized, render_vars,
                   other_vars>>

\* read_distribution raises
ReadDistributionFails ==
    /\ pc = "distribution"
    /\ MainDistribution.error # NoError
    /\ max_supply_btc' = MainMaxSupply
    /\ pc' = "failed"
    /\ error' = MainDistribution.error
    /\ UNCHANGED <<source, meta_rows, distribution_rows, meta, distribution,
                   history, backup_path, out_file, completed, points_sheet, points, rp_error>>
    /\ UNCHANGED <<row_number, rp_pc, segments, fd_pc, normalized, render_vars,
                   other_vars>>

\* out_path.parent.mkdir and html_output = render_html(...)
RenderHtml ==
    /\ pc = "render"
    /\ Complete("render", "write")
    /\ UNCHANGED <<source, meta_rows, distribution_rows, meta, distribution,
                   history, backup_path, out_file, points_sheet, points, rp_error>>
    /\ MainUnchanged

\* mutant: the output file is opened for writing before the page is rendered
RenderHtmlFailsTruncated ==
    /\ pc = "render"
    /\ Fail("render")
    /\ out_file' = "partial"
    /\ UNCHANGED <<source, meta_rows, distribution_rows, meta, distribution,
                   history, backup_path, completed, points_sheet, points, rp_error>>
    /\ MainUnchanged

\* mkdir or render_html raises (an OSError of a file probe, an OverflowError
\* of a number format)
RenderHtmlFails ==
    /\ pc = "render"
    /\ Fail("render")
    /\ UNCHANGED <<source, meta_rows, distribution_rows, meta, distribution,
                   history, backup_path, out_file, completed, points_sheet, points, rp_error>>
    /\ MainUnchanged

\* out_path.write_text(html_output, encoding="utf-8")
WriteOutput ==
    /\ pc = "write"
    /\ out_file' = "new"
    /\ Complete("write", "done")
    /\ UNCHANGED <<source, meta_rows, distribution_rows, meta, distribution,
                   history, backup_path, points_sheet, points, rp_error>>
    /\ MainUnchanged

\* write_text raises: the file is untouched (open failed) or cut short
WriteOutputFails ==
    /\ pc = "write"
    /\ Fail("write")
    /\ out_file' \in {out_file, "partial"}
    /\ UNCHANGED <<source, meta_rows, distribution_rows, meta, distribution,
                   history, backup_path, completed, points_sheet, points, rp_error>>
    /\ MainUnchanged

NextMain ==
    \/ LoadSource \/ LoadSourceFails \/ WriteSnapshot \/ WriteSnapshotFails
    \/ OpenWorkbook \/ OpenWorkbookFails
    \/ ReadMeta \/ ReadPoints \/ ReadPointsFails
    \/ ReadDistribution \/ ReadDistributionFails
    \/ RenderHtml \/ RenderHtmlFails
    \/ WriteOutput \/ WriteOutputFails

(***************************************************************************)
(* The header row.  header_index_map (points) and the head of              *)
(* read_distribution build the same mapping: normalized, lower-cased       *)
(* header text -> column, a later column of the same name replacing an     *)
(* earlier one.  Columns are numbered from 1 here (enumerate starts at 0). *)
(***************************************************************************)
\* key = normalize_text(header).lower()
HeaderKey(header) == Lower(normalize_text(header))

RECURSIVE HeaderMappingExact(_)
\* mutant: the header text is compared as it is written
HeaderMappingExact(hs) ==
    IF hs = <<>> THEN EmptyDict
    ELSE LET before == HeaderMappingExact(SubSeq(hs, 1, Len(hs) - 1))
             key == normalize_text(hs[Len(hs)])
         IN IF key # <<>> THEN DictSet(before, key, Len(hs)) ELSE before

RECURSIVE HeaderMapping(_)
\* the loop over enumerate(headers): mapping[key] = index for every non-empty key
HeaderMapping(hs) ==
    IF hs = <<>> THEN EmptyDict
    ELSE LET before == HeaderMapping(SubSeq(hs, 1, Len(hs) - 1))
             key == HeaderKey(hs[Len(hs)])
         IN IF key # <<>> THEN DictSet(before, key, Len(hs)) ELSE before

PointsRequired ==
    <<<<"o", "r", "d", "e", "r">>, <<"t", "i", "t", "l", "e">>, <<"c", "o", "n", "t", "e", "n", "t">>, <<"i", "m", "a", "g", "e", "_", "p", "a", "t", "h">>, <<"i", "m", "a", "g", "e", "_", "c", "a", "p", "t", "i", "o", "n">>>>

DistributionRequired == <<<<"c", "a", "t", "e", "g", "o", "r", "y">>, <<"a", "m", "o", "u", "n", "t", "_", "b", "t", "c">>, <<"c", "o", "l", "o", "r">>>>

\* missing = [name for name in required if name not in mapping]
MissingColumns(required, mapping) ==
    SelectSeq(required, LAMBDA name : name \notin DOMAIN mapping)

\* header_index_map(points_sheet): [mapping, error]
header_index_map(hs) ==
    LET mapping == HeaderMapping(hs)
        missing == MissingColumns(PointsRequired, mapping)
    IN [mapping |-> mapping,
        error |-> IF missing # <<>> THEN ListError("missing_points_columns", missing)
                  ELSE NoError]

\* the cells read_points takes from a data row: row[mapping[name]], and the
\* source column only if the sheet has one
PointsRow(mapping, row) ==
    [order |-> row[mapping[<<"o", "r", "d", "e", "r">>]],
     title |-> row[mapping[<<"t", "i", "t", "l", "e">>]],
     content |-> row[mapping[<<"c", "o", "n", "t", "e", "n", "t">>]],
     image_path |-> row[mapping[<<"i", "m", "a", "g", "e", "_", "p", "a", "t", "h">>]],
     image_caption |-> row[mapping[<<"i", "m", "a", "g", "e", "_", "c", "a", "p", "t", "i", "o", "n">>]],
     source |-> IF <<"s", "o", "u", "r", "c", "e">> \in DOMAIN mapping THEN row[mapping[<<"s", "o", "u", "r", "c", "e">>]]
                ELSE None]

\* the cells read_distribution takes from a data row, the percent column only
\* if the sheet has one
DistributionCells(mapping, row) ==
    [category |-> row[mapping[<<"c", "a", "t", "e", "g", "o", "r", "y">>]],
     amount_btc |-> row[mapping[<<"a", "m", "o", "u", "n", "t", "_", "b", "t", "c">>]],
     color |-> row[mapping[<<"c", "o", "l", "o", "r">>]],
     percent |-> IF <<"p", "e", "r", "c", "e", "n", "t">> \in DOMAIN mapping THEN row[mapping[<<"p", "e", "r", "c", "e", "n", "t">>]]
                 ELSE None]

(***************************************************************************)
(* read_points and read_distribution on a sheet with its header row.       *)
(***************************************************************************)
\* mapping = header_index_map(points_sheet), returning
ReadPointsHeader ==
    /\ rp_pc = "header"
    /\ LET result == header_index_map(headers) IN
          /\ result.error = NoError
          /\ points_sheet' = [i \in 1..Len(sheet_rows) |->
                                 PointsRow(result.mapping, sheet_rows[i])]
    /\ rp_pc' = "loop"
    /\ UNCHANGED <<row_number, points, rp_error, dist_vars, render_vars, main_vars,
                   other_vars>>

\* "Missing required columns in points sheet: ..."
PointsHeaderFails ==
    /\ rp_pc = "header"
    /\ header_index_map(headers).error # NoError
    /\ rp_error' = header_index_map(headers).error
    /\ rp_pc' = "raised"
    /\ UNCHANGED <<points_sheet, row_number, points, dist_vars, render_vars,
                   main_vars, other_vars>>

\* everything read_distribution leaves alone while it reads the rows
DistributionLoopUnchanged ==
    UNCHANGED <<points_vars, render_vars, pc, source, meta_rows, meta, distribution,
                history, backup_path, out_file, completed, error, headers, sheet_rows,
                max_supply_btc, normalized, meta_vars, emphasize_vars, image_vars>>

\* the header loop found the three required columns
ReadDistributionHeader ==
    /\ rd_pc = "header"
    /\ LET mapping == HeaderMapping(headers) IN
          /\ MissingColumns(DistributionRequired, mapping) = <<>>
          /\ distribution_rows' = [i \in 1..Len(sheet_rows) |->
                                      DistributionCells(mapping, sheet_rows[i])]
    /\ rd_pc' = "loop"
    /\ UNCHANGED <<rd_index, rd_error, segments, fd_pc>>
    /\ DistributionLoopUnchanged

\* "Missing required columns in distribution sheet: ..."
DistributionHeaderFails ==
    /\ rd_pc = "header"
    /\ MissingColumns(DistributionRequired, HeaderMapping(headers)) # <<>>
    /\ rd_error' = ListError("missing_distribution_columns",
                             MissingColumns(DistributionRequired, HeaderMapping(headers)))
    /\ rd_pc' = "raised"
    /\ UNCHANGED <<rd_index, distribution_rows, segments, fd_pc>>
    /\ DistributionLoopUnchanged

AtSegmentRow == rd_pc = "loop" /\ rd_index <= Len(distribution_rows)
CurrentSegment == DistributionRow(distribution_rows[rd_index])

\* if not category and amount_btc <= 0: continue
SkipSegmentRow ==
    /\ AtSegmentRow
    /\ IsSkippedSegment(CurrentSegment)
    /\ rd_index' = rd_index + 1
    /\ UNCHANGED <<rd_pc, rd_error, distribution_rows, segments, fd_pc>>
    /\ DistributionLoopUnchanged

\* the row raises: missing category, or negative amount
RaiseSegmentError ==
    /\ AtSegmentRow
    /\ ~IsSkippedSegment(CurrentSegment)
    /\ SegmentError(CurrentSegment) # NoError
    /\ rd_error' = SegmentError(CurrentSegment)
    /\ rd_pc' = "raised"
    /\ UNCHANGED <<rd_index, distribution_rows, segments, fd_pc>>
    /\ DistributionLoopUnchanged

\* segments.append(DistributionSegment(...))
AppendSegment ==
    /\ AtSegmentRow
    /\ ~IsSkippedSegment(CurrentSegment)
    /\ SegmentError(CurrentSegment) = NoError
    /\ segments' = Append(segments, CurrentSegment)
    /\ rd_index' = rd_index + 1
    /\ UNCHANGED <<rd_pc, rd_error, distribution_rows, fd_pc>>
    /\ DistributionLoopUnchanged

\* if not segments: return default_distribution_segments(max_supply_btc)
UseDefaultSegments ==
    /\ rd_pc = "loop"
    /\ rd_index > Len(distribution_rows)
    /\ segments = <<>>
    /\ segments' = DefaultBase
    /\ fd_pc' = "start"
    /\ rd_pc' = "finalize"
    /\ UNCHANGED <<rd_index, rd_error, distribution_rows>>
    /\ DistributionLoopUnchanged

\* return finalize_distribution_segments(segments, max_supply_btc)
FinalizeSegments ==
    /\ rd_pc = "loop"
    /\ rd_index > Len(distribution_rows)
    /\ segments # <<>>
    /\ fd_pc' = "start"
    /\ rd_pc' = "finalize"
    /\ UNCHANGED <<rd_index, rd_error, distribution_rows, segments>>
    /\ DistributionLoopUnchanged

NextSheets ==
    \/ ReadPointsHeader \/ PointsHeaderFails \/ NextPoints
    \/ ReadDistributionHeader \/ DistributionHeaderFails
    \/ SkipSegmentRow \/ RaiseSegmentError \/ AppendSegment
    \/ UseDefaultSegments \/ FinalizeSegments
    \/ DerivePercents \/ RescalePercents \/ KeepPercents \/ SortSegments

(***************************************************************************)
(* The sheets read_points is run on.                                       *)
(***************************************************************************)
Txt(str) == StrCell(<<str>>)

Row(order, title, content, image_path, image_caption, source_text) ==
    [order |-> order, title |-> title, content |-> content,
     image_path |-> image_path, image_caption |-> image_caption,
     source |-> source_text]

ValidRow(order) == Row(order, Txt("T"), Txt("C"), None, None, None)

\* spacer rows: empty cells, and cells of whitespace only
SpacerRows ==
    {Row(None, None, None, None, None, None),
     Row(Txt(" "), StrCell(<<>>), Txt(" "), None, StrCell(<<" ", " ">>), None)}

\* the rows around an arbitrary row
ContextRows ==
    {ValidRow(IntCell(2)), ValidRow(StrCell(<<" ", "3">>)),
     Row(None, None, None, None, None, None)}

PlainRows ==
    SpacerRows \cup
    {ValidRow(IntCell(2)), ValidRow(StrCell(<<" ", "3">>)),
     Row(Txt("2"), Txt("T"), Txt("C"), Txt("i"), None, Txt("s"))}

OrderCells ==
    {None, Txt(" "), IntCell(0 - 1), IntCell(0), IntCell(4), IntCell(11),
     FloatCell(3, 5), FloatCell(4, 0), FloatCell(11, 0),
     StrCell(<<"3", ".", "5">>), StrCell(<<"-", "1">>), StrCell(<<"0", "4">>),
     StrCell(<<"1", "2">>), Txt("x")}

\* the optional cells: none, only a path, only a caption, only a source
OptionalCells ==
    {<<None, None, None>>, <<Txt("i"), None, None>>,
     <<None, Txt("c"), None>>, <<None, None, Txt("s")>>}

AnyRows ==
    {Row(o, t, c, x[1], x[2], x[3]) :
        o \in OrderCells, t \in {None, Txt(" "), Txt("T")}, c \in {None, Txt("C")},
        x \in OptionalCells}

\* rows that fail their own validation
InvalidRows ==
    {Row(IntCell(11), Txt("T"), Txt("C"), None, None, None),
     Row(FloatCell(3, 5), Txt("T"), Txt("C"), None, None, None),
     Row(None, Txt("T"), Txt("C"), None, None, None),
     Row(IntCell(4), None, Txt("C"), None, None, None),
     Row(IntCell(4), Txt("T"), None, None, None, None),
     Row(None, None, None, None, Txt("c"), None)}

SeqsUpTo(S, n) == UNION {[1..k -> S] : k \in 0..n}

\* every sheet of up to MaxRows spacer and valid rows
PlainSheets == SeqsUpTo(PlainRows, MaxRows)

ContextSheets == SeqsUpTo(ContextRows, MaxRows)

\* one arbitrary row anywhere among context rows
IsOneRowSheet(sheet) ==
    \E s \in ContextSheets, r \in AnyRows :
        \E i \in 1..Len(s) : sheet = [s EXCEPT ![i] = r]

\* two invalid rows anywhere among context rows
IsTwoRowSheet(sheet) ==
    \E s \in ContextSheets, r1 \in InvalidRows, r2 \in InvalidRows :
        \E j \in 2..Len(s) : \E i \in 1..j - 1 :
            sheet = [s EXCEPT ![i] = r1, ![j] = r2]

\* up to MaxLong valid rows whose orders run a + b, a + 2b, ... around 1..10
StrideOrder(a, b, i) == ((a + b * i) % MAX_POINTS) + 1

StrideCell(n) == IF n % 2 = 0 THEN IntCell(n) ELSE StrCell(NatToText(n))

LongSheets ==
    {[i \in 1..k |-> ValidRow(StrideCell(StrideOrder(a, b, i)))] :
        a \in {0, 3}, b \in {1, 2, 3, 5, 7, 9}, k \in 1..MaxLong}

PointsIdle ==
    /\ points_sheet = <<>>
    /\ rp_pc = "idle"
    /\ row_number = 2
    /\ points = <<>>
    /\ rp_error = NoError

RenderIdle ==
    /\ raw = <<>>
    /\ lines = <<>>
    /\ line_index = 1
    /\ blocks = <<>>
    /\ list_open = FALSE
    /\ rc_pc = "idle"

MainIdle ==
    /\ pc = "idle"
    /\ source = [kind |-> "xlsx", available |-> FALSE, sheets |-> {}]
    /\ meta_rows = <<>>
    /\ distribution_rows = <<>>
    /\ meta = EmptyDict
    /\ distribution = <<>>
    /\ history = NoSnapshots
    /\ backup_path = NoPath
    /\ out_file = "absent"
    /\ completed = <<>>
    /\ error = NoError

DistributionIdle ==
    /\ segments = <<>>
    /\ max_supply_btc = Num(0)
    /\ fd_pc = "idle"
    /\ normalized = <<>>

SheetIdle ==
    /\ headers = <<>>
    /\ sheet_rows = <<>>
    /\ rd_pc = "idle"
    /\ rd_index = 1
    /\ rd_error = NoError

MetaIdle ==
    /\ rm_pc = "idle"
    /\ rm_index = 1

EmphasizeIdle ==
    /\ em_text = <<>>
    /\ em_pos = 1
    /\ em_start = 1
    /\ em_output = <<>>
    /\ em_pc = "idle"

ImageIdle ==
    /\ point = [order |-> 1, image_path |-> <<>>]
    /\ files = {}
    /\ probed = <<>>
    /\ img_pc = "idle"
    /\ probe_index = 1
    /\ extra_index = 1
    /\ candidate = <<>>
    /\ image_src = <<>>
    /\ sources = <<>>

InitPoints ==
    /\ \/ points_sheet \in PlainSheets
       \/ IsOneRowSheet(points_sheet)
       \/ IsTwoRowSheet(points_sheet)
       \/ points_sheet \in LongSheets
    /\ rp_pc = "loop"
    /\ row_number = 2
    /\ points = <<>>
    /\ rp_error = NoError
    /\ DistributionIdle
    /\ RenderIdle
    /\ MainIdle
    /\ SheetIdle
    /\ MetaIdle
    /\ EmphasizeIdle
    /\ ImageIdle

SpecPoints == InitPoints /\ [][NextPoints]_vars

(***************************************************************************)
(* The segment lists finalize_distribution_segments is run on.             *)
(***************************************************************************)
CategoryName(i) == <<"c">> \o NatToText(i)

Amounts == {Num(0), Num(1), Rat(3, 2)}

Percents == {Num(0), Num(40), Num(0 - 5)}

SegmentLists ==
    UNION {{[i \in 1..k |->
               [category |-> CategoryName(i), amount_btc |-> a[i],
                percent |-> p[i], color |-> FallbackColor]] :
              a \in [1..k -> Amounts], p \in [1..k -> Percents]} :
           k \in 0..MaxSegments}

MaxSupplies == {Num(0 - 1), Num(0), Num(4), Num(5), Num(21)}

InitDistribution ==
    /\ segments \in SegmentLists
    /\ max_supply_btc \in MaxSupplies
    /\ fd_pc = "start"
    /\ normalized = <<>>
    /\ PointsIdle
    /\ RenderIdle
    /\ MainIdle
    /\ SheetIdle
    /\ MetaIdle
    /\ EmphasizeIdle
    /\ ImageIdle

SpecDistribution == InitDistribution /\ [][NextDistribution]_vars

(***************************************************************************)
(* The texts render_content_blocks is run on.                              *)
(***************************************************************************)
ContentLines ==
    {<<>>, <<" ">>, <<"a">>, <<"-", " ", "a">>, <<"*", " ", "a">>,
     <<" ", "-", " ", "a", " ">>, <<"-", " ">>, <<"-", "a">>,
     <<"-", " ", "a", "\r">>}

RECURSIVE JoinLines(_)
\* the text whose lines are ls
JoinLines(ls) ==
    IF Len(ls) = 1 THEN ls[1]
    ELSE ls[1] \o <<"\n">> \o JoinLines(Tail(ls))

ContentTexts ==
    {<<>>} \cup {JoinLines(ls) : ls \in SeqsUpTo(ContentLines, MaxLines) \ {<<>>}}

ExampleContent ==
    <<"I", "n", "t", "r", "o", " ", "l", "i", "n", "e", "\n",
      "-", " ", "i", "t", "e", "m", " ", "o", "n", "e", "\n",
      "-", " ", "i", "t", "e", "m", " ", "t", "w", "o", "\n",
      "C", "l", "o", "s", "i", "n", "g", " ", "l", "i", "n", "e">>

InitRender ==
    /\ raw \in ContentTexts \cup {ExampleContent}
    /\ lines = <<>>
    /\ line_index = 1
    /\ blocks = <<>>
    /\ list_open = FALSE
    /\ rc_pc = "start"
    /\ PointsIdle
    /\ DistributionIdle
    /\ MainIdle
    /\ SheetIdle
    /\ MetaIdle
    /\ EmphasizeIdle
    /\ ImageIdle

SpecRender == InitRender /\ [][NextRender]_vars

(***************************************************************************)
(* The sources a build run is started on.                                  *)
(***************************************************************************)
MetaRow(key, value) == [key |-> key, value |-> value]

MainMetaTables ==
    {<<>>,
     <<MetaRow(StrCell(MaxSupplyKey), IntCell(4))>>,
     <<MetaRow(StrCell(MaxSupplyKey), IntCell(0))>>,
     <<MetaRow(StrCell(MaxSupplyKey), Txt("x")), MetaRow(None, Txt("v"))>>}

MainPointsSheets ==
    {<<>>,
     <<ValidRow(IntCell(2)), Row(None, None, None, None, None, None),
       ValidRow(IntCell(1))>>,
     <<ValidRow(IntCell(1)), ValidRow(IntCell(11))>>,
     <<ValidRow(IntCell(1)), Row(IntCell(2), Txt("T"), None, None, None, None)>>}

SegmentRow(category, amount, percent) ==
    [category |-> category, amount_btc |-> amount, percent |-> percent,
     color |-> None]

MainDistributionTables ==
    {<<>>,
     <<SegmentRow(Txt("A"), IntCell(1), None), SegmentRow(Txt("B"), IntCell(3), None)>>,
     <<SegmentRow(Txt("A"), IntCell(1), IntCell(40)),
       SegmentRow(Txt("B"), IntCell(0 - 3), None)>>,
     <<SegmentRow(None, IntCell(2), None)>>,
     <<SegmentRow(None, IntCell(0), None), SegmentRow(Txt(" "), Txt("x"), IntCell(40))>>}

Sources ==
    {[kind |-> "xlsx", available |-> a, sheets |-> sh] :
        a \in BOOLEAN, sh \in SUBSET {"meta", "points", "distribution"}}
    \cup
    {[kind |-> "google", available |-> a, sheets |-> {"meta", "points"} \cup sh] :
        a \in BOOLEAN, sh \in SUBSET {"distribution"}}

InitMain ==
    /\ pc = "load"
    /\ source \in Sources
    /\ meta_rows \in MainMetaTables
    /\ points_sheet \in MainPointsSheets
    /\ distribution_rows \in MainDistributionTables
    /\ meta = EmptyDict
    /\ distribution = <<>>
    /\ history \in EarlierSnapshots
    /\ backup_path = NoPath
    /\ out_file \in {"absent", "old"}
    /\ completed = <<>>
    /\ error = NoError
    /\ rp_pc = "idle"
    /\ row_number = 2
    /\ points = <<>>
    /\ rp_error = NoError
    /\ DistributionIdle
    /\ RenderIdle
    /\ SheetIdle
    /\ MetaIdle
    /\ EmphasizeIdle
    /\ ImageIdle

SpecMain == InitMain /\ [][NextMain]_vars

(***************************************************************************)
(* The sheets, header row included, that read_points and read_distribution *)
(* are run on.  A data row has one cell per header cell; the cells a       *)
(* column may hold depend on the column's name.                            *)
(***************************************************************************)
MaxSheetRows == 2

PointsHeaderRows ==
    {<<StrCell(<<"o", "r", "d", "e", "r">>), StrCell(<<"t", "i", "t", "l", "e">>), StrCell(<<"c", "o", "n", "t", "e", "n", "t">>),
       StrCell(<<"i", "m", "a", "g", "e", "_", "p", "a", "t", "h">>), StrCell(<<"i", "m", "a", "g", "e", "_", "c", "a", "p", "t", "i", "o", "n">>), StrCell(<<"s", "o", "u", "r", "c", "e">>)>>,
     <<StrCell(<<" ", "O", "r", "d", "e", "r", " ">>), StrCell(<<"T", "I", "T", "L", "E">>), StrCell(<<"C", "o", "n", "t", "e", "n", "t">>),
       StrCell(<<"I", "m", "a", "g", "e", "_", "P", "a", "t", "h">>), StrCell(<<"I", "M", "A", "G", "E", "_", "C", "A", "P", "T", "I", "O", "N">>)>>,
     <<StrCell(<<"s", "o", "u", "r", "c", "e">>), StrCell(<<"i", "m", "a", "g", "e", "_", "c", "a", "p", "t", "i", "o", "n">>), StrCell(<<"i", "m", "a", "g", "e", "_", "p", "a", "t", "h">>),
       StrCell(<<"c", "o", "n", "t", "e", "n", "t">>), StrCell(<<"t", "i", "t", "l", "e">>), StrCell(<<"o", "r", "d", "e", "r">>)>>,
     <<StrCell(<<"o", "r", "d", "e", "r">>), StrCell(<<"t", "i", "t", "l", "e">>), StrCell(<<"c", "o", "n", "t", "e", "n", "t">>)>>,
     <<StrCell(<<"t", "i", "t", "l", "e">>), StrCell(<<"n", "o", "t", "e", "s">>), None>>,
     <<StrCell(<<"o", "r", "d", "e", "r">>), StrCell(<<"t", "i", "t", "l", "e">>), StrCell(<<"c", "o", "n", "t", "e", "n", "t">>),
       StrCell(<<"i", "m", "a", "g", "e", "_", "p", "a", "t", "h">>), StrCell(<<"i", "m", "a", "g", "e", "_", "c", "a", "p", "t", "i", "o", "n">>), StrCell(<<"T", "i", "t", "l", "e">>)>>,
     <<StrCell(<<"o", "r", "d", "e", "r">>), StrCell(<<"c", "o", "n", "t", "e", "n", "t">>), StrCell(<<"i", "m", "a", "g", "e", "_", "p", "a", "t", "h">>),
       StrCell(<<"i", "m", "a", "g", "e", "_", "c", "a", "p", "t", "i", "o", "n">>)>>,
     <<None>>}

DistributionHeaderRows ==
    {<<StrCell(<<"c", "a", "t", "e", "g", "o", "r", "y">>), StrCell(<<"a", "m", "o", "u", "n", "t", "_", "b", "t", "c">>), StrCell(<<"c", "o", "l", "o", "r">>),
       StrCell(<<"p", "e", "r", "c", "e", "n", "t">>)>>,
     <<StrCell(<<" ", "C", "a", "t", "e", "g", "o", "r", "y", " ">>), StrCell(<<"A", "M", "O", "U", "N", "T", "_", "B", "T", "C">>), StrCell(<<"C", "o", "l", "o", "r">>)>>,
     <<StrCell(<<"c", "o", "l", "o", "r">>), StrCell(<<"p", "e", "r", "c", "e", "n", "t">>), StrCell(<<"a", "m", "o", "u", "n", "t", "_", "b", "t", "c">>),
       StrCell(<<"c", "a", "t", "e", "g", "o", "r", "y">>)>>,
     <<StrCell(<<"c", "a", "t", "e", "g", "o", "r", "y">>), StrCell(<<"a", "m", "o", "u", "n", "t", "_", "b", "t", "c">>)>>,
     <<StrCell(<<"p", "e", "r", "c", "e", "n", "t">>)>>,
     <<StrCell(<<"c", "a", "t", "e", "g", "o", "r", "y">>), None, StrCell(<<"c", "o", "l", "o", "r">>), StrCell(<<"n", "o", "t", "e", "s">>)>>,
     <<StrCell(<<"c", "a", "t", "e", "g", "o", "r", "y">>), StrCell(<<"a", "m", "o", "u", "n", "t", "_", "b", "t", "c">>), StrCell(<<"c", "o", "l", "o", "r">>),
       StrCell(<<"C", "a", "t", "e", "g", "o", "r", "y">>)>>,
     <<None>>}

\* the cells a points column may hold
PointsColumnCells(key) ==
    IF key = <<"o", "r", "d", "e", "r">> THEN {Txt("1"), IntCell(2), None}
    ELSE IF key = <<"t", "i", "t", "l", "e">> THEN {Txt("T"), None}
    ELSE IF key = <<"c", "o", "n", "t", "e", "n", "t">> THEN {Txt("C"), None}
    ELSE IF key = <<"s", "o", "u", "r", "c", "e">> THEN {Txt("s")}
    ELSE {None}

\* the cells a distribution column may hold
DistributionColumnCells(key) ==
    IF key = <<"c", "a", "t", "e", "g", "o", "r", "y">> THEN {None, Txt("A"), StrCell(<<" ", "B", " ">>)}
    ELSE IF key = <<"a", "m", "o", "u", "n", "t", "_", "b", "t", "c">> THEN {None, IntCell(2), IntCell(0 - 3)}
    ELSE IF key = <<"p", "e", "r", "c", "e", "n", "t">> THEN {IntCell(40)}
    ELSE {None}

RECURSIVE PointsSheetRows(_)
\* the data rows of a points sheet with header row hs
PointsSheetRows(hs) ==
    IF hs = <<>> THEN {<<>>}
    ELSE {Append(row, cell) :
             row \in PointsSheetRows(SubSeq(hs, 1, Len(hs) - 1)),
             cell \in PointsColumnCells(HeaderKey(hs[Len(hs)]))}

RECURSIVE DistributionSheetRows(_)
\* the data rows of a distribution sheet with header row hs
DistributionSheetRows(hs) ==
    IF hs = <<>> THEN {<<>>}
    ELSE {Append(row, cell) :
             row \in DistributionSheetRows(SubSeq(hs, 1, Len(hs) - 1)),
             cell \in DistributionColumnCells(HeaderKey(hs[Len(hs)]))}

InitPointsSheet ==
    /\ headers \in PointsHeaderRows
    /\ \E k \in 0..MaxSheetRows : sheet_rows \in [1..k -> PointsSheetRows(headers)]
    /\ points_sheet = <<>>
    /\ rp_pc = "header"
    /\ row_number = 2
    /\ points = <<>>
    /\ rp_error = NoError
    /\ rd_pc = "idle"
    /\ rd_index = 1
    /\ rd_error = NoError
    /\ DistributionIdle
    /\ RenderIdle
    /\ MainIdle
    /\ MetaIdle
    /\ EmphasizeIdle
    /\ ImageIdle

InitDistributionSheet ==
    /\ headers \in DistributionHeaderRows
    /\ \E k \in 0..MaxSheetRows :
          sheet_rows \in [1..k -> DistributionSheetRows(headers)]
    /\ max_supply_btc = Num(21000000)
    /\ rd_pc = "header"
    /\ rd_index = 1
    /\ rd_error = NoError
    /\ segments = <<>>
    /\ fd_pc = "idle"
    /\ normalized = <<>>
    /\ PointsIdle
    /\ RenderIdle
    /\ MainIdle
    /\ MetaIdle
    /\ EmphasizeIdle
    /\ ImageIdle

InitSheets == InitPointsSheet \/ InitDistributionSheet

SpecSheets == InitSheets /\ [][NextSheets]_vars

(***************************************************************************)
(* The meta tables read_meta is run on.                                    *)
(***************************************************************************)
MaxMetaRows == 2

\* "image_dir" and "max_supply_btc" are keys of DEFAULT_META
MetaKeyCells ==
    {None, Txt(" "), Txt("k"), StrCell(<<" ", "k", " ">>), Txt("K"), StrCell(<<"i", "m", "a", "g", "e", "_", "d", "i", "r">>),
     StrCell(MaxSupplyKey)}

MetaValueCells == {None, Txt("v"), StrCell(<<" ", "w", " ">>), IntCell(4)}

InitMeta ==
    /\ \E k \in 0..MaxMetaRows :
          meta_rows \in [1..k -> {MetaRow(key, value) :
                                     key \in MetaKeyCells, value \in MetaValueCells}]
    /\ meta = EmptyDict
    /\ rm_pc = "loop"
    /\ rm_index = 1
    /\ pc = "idle"
    /\ source = [kind |-> "xlsx", available |-> FALSE, sheets |-> {}]
    /\ distribution_rows = <<>>
    /\ distribution = <<>>
    /\ history = NoSnapshots
    /\ backup_path = NoPath
    /\ out_file = "absent"
    /\ completed = <<>>
    /\ error = NoError
    /\ PointsIdle
    /\ DistributionIdle
    /\ RenderIdle
    /\ SheetIdle
    /\ EmphasizeIdle
    /\ ImageIdle

SpecMeta == InitMeta /\ [][NextMeta]_vars

(***************************************************************************)
(* The texts emphasize_numbers is run on: up to MaxPieces pieces, and the  *)
(* two examples.                                                           *)
(***************************************************************************)
MaxPieces == 3

TextPieces ==
    {<<"1">>, <<"2", "3">>, <<"1", ",", "2", "3", "4">>, <<".">>, <<",">>, <<"%">>, <<"k">>, <<"Q">>, <<" ">>, <<"_">>,
     <<"&">>}

RECURSIVE Concat(_)
Concat(pieces) == IF pieces = <<>> THEN <<>> ELSE pieces[1] \o Concat(Tail(pieces))

ExampleSentence == <<"B", "T", "C", " ", "r", "o", "s", "e", " ", "1", "2", ",", "5", "0", "0", " ", "t", "h", "i", "s", " ", "w", "e", "e", "k", ",", " ", "+", "3", ".", "2", "%", " ", "g", "a", "i", "n">>

ExampleWord == <<"Q", "4">>

InitEmphasize ==
    /\ \/ \E k \in 0..MaxPieces : \E pieces \in [1..k -> TextPieces] :
             em_text = Concat(pieces)
       \/ em_text \in {ExampleSentence, ExampleWord}
    /\ em_pos = 1
    /\ em_start = 1
    /\ em_output = <<>>
    /\ em_pc = "scan"
    /\ PointsIdle
    /\ DistributionIdle
    /\ RenderIdle
    /\ MainIdle
    /\ SheetIdle
    /\ MetaIdle
    /\ ImageIdle

SpecEmphasize == InitEmphasize /\ [][NextEmphasize]_vars

(***************************************************************************)
(* The points, meta dicts and files resolve_image_path is run on.          *)
(***************************************************************************)
MaxImageFiles == 2

\* a dict with no entry for key, or with one of the values
OptionalEntry(key, values) ==
    {EmptyDict} \cup {DictSet(EmptyDict, key, v) : v \in values}

MergeDicts(d1, d2) ==
    [k \in DOMAIN d1 \cup DOMAIN d2 |-> IF k \in DOMAIN d1 THEN d1[k] ELSE d2[k]]

AutoEntries ==
    OptionalEntry(<<"a", "u", "t", "o", "_", "i", "m", "a", "g", "e", "_", "b", "y", "_", "o", "r", "d", "e", "r">>, {<<"Y", "e", "s">>, <<"f", "a", "l", "s", "e">>, <<>>})

DirEntries == OptionalEntry(<<"i", "m", "a", "g", "e", "_", "d", "i", "r">>, {<<"i", "m", "g">>, <<>>})

ImageMetas == {MergeDicts(a, d) : a \in AutoEntries, d \in DirEntries}

ImagePaths ==
    {<<>>, <<" ">>, <<"a", ".", "p", "n", "g">>, <<" ", "a", ".", "p", "n", "g", " ">>, <<"/", "a", "b", "s", "/", "a", ".", "p", "n", "g">>, <<"h", "t", "t", "p", "s", ":", "/", "/", "x", "/", "a", ".", "p", "n", "g">>,
     <<"d", "a", "t", "a", ":", "x">>, <<"c", "i", "d", ":", "x">>, <<"f", "t", "p", ":", "/", "/", "x">>}

ImagePoints == {[order |-> o, image_path |-> p] : o \in {1, 10}, p \in ImagePaths}

\* the paths that may exist for a point and a meta dict
ImageFiles(m, order) ==
    {OrderCandidate(m, order, i) : i \in 1..Len(Extensions)}
    \cup {<<"a", ".", "p", "n", "g">>, <<"/", "a", "b", "s", "/", "a", ".", "p", "n", "g">>, <<"h", "t", "t", "p", "s", ":", "/", "/", "x", "/", "a", ".", "p", "n", "g">>}

InitImage ==
    /\ point \in ImagePoints
    /\ meta \in ImageMetas
    /\ files \in {S \in SUBSET ImageFiles(meta, point.order) :
                     Cardinality(S) <= MaxImageFiles}
    /\ probed = <<>>
    /\ img_pc = "start"
    /\ probe_index = 1
    /\ extra_index = 1
    /\ candidate = <<>>
    /\ image_src = <<>>
    /\ sources = <<>>
    /\ pc = "idle"
    /\ source = [kind |-> "xlsx", available |-> FALSE, sheets |-> {}]
    /\ meta_rows = <<>>
    /\ distribution_rows = <<>>
    /\ distribution = <<>>
    /\ history = NoSnapshots
    /\ backup_path = NoPath
    /\ out_file = "absent"
    /\ completed = <<>>
    /\ error = NoError
    /\ PointsIdle
    /\ DistributionIdle
    /\ RenderIdle
    /\ SheetIdle
    /\ MetaIdle
    /\ EmphasizeIdle

SpecImage == InitImage /\ [][NextImage]_vars

(***************************************************************************)
(* The meta dicts and files resolve_extra_image_paths is run on.           *)
(***************************************************************************)
MaxExtraFiles == 2

MaxExtraEntries ==
    OptionalEntry(<<"m", "a", "x", "_", "e", "x", "t", "r", "a", "_", "i", "m", "a", "g", "e", "s">>,
                  {<<>>, <<"0">>, <<"2">>, <<"2", ".", "7">>, <<"-", "3">>, <<"2", "5">>, <<"x">>, <<"2", "0">>})

ExtraMetas ==
    {MergeDicts(MergeDicts(a, d), x) :
        a \in OptionalEntry(<<"a", "u", "t", "o", "_", "i", "m", "a", "g", "e", "_", "b", "y", "_", "o", "r", "d", "e", "r">>, {<<"f", "a", "l", "s", "e">>}),
        d \in OptionalEntry(<<"i", "m", "a", "g", "e", "_", "d", "i", "r">>, {<<"i", "m", "g">>}),
        x \in MaxExtraEntries}

\* the files that may exist: <order>.<index>.<extension> for a few indices
\* and extensions, and the main image of the point
ExtraFiles(m, order) ==
    {ExtraCandidate(m, order, c[1], c[2]) :
        c \in {<<1, 1>>, <<1, 2>>, <<2, 4>>, <<3, 3>>, <<3, 4>>, <<10, 1>>,
               <<11, 2>>, <<20, 1>>, <<21, 1>>}}
    \cup {OrderCandidate(m, order, 1)}

InitExtraImages ==
    /\ point = [order |-> 1, image_path |-> <<>>]
    /\ meta \in ExtraMetas
    /\ files \in {S \in SUBSET ExtraFiles(meta, point.order) :
                     Cardinality(S) <= MaxExtraFiles}
    /\ probed = <<>>
    /\ img_pc = "extra_start"
    /\ probe_index = 1
    /\ extra_index = 1
    /\ candidate = <<>>
    /\ image_src = <<>>
    /\ sources = <<>>
    /\ pc = "idle"
    /\ source = [kind |-> "xlsx", available |-> FALSE, sheets |-> {}]
    /\ meta_rows = <<>>
    /\ distribution_rows = <<>>
    /\ distribution = <<>>
    /\ history = NoSnapshots
    /\ backup_path = NoPath
    /\ out_file = "absent"
    /\ completed = <<>>
    /\ error = NoError
    /\ PointsIdle
    /\ DistributionIdle
    /\ RenderIdle
    /\ SheetIdle
    /\ MetaIdle
    /\ EmphasizeIdle

SpecExtraImages == InitExtraImages /\ [][NextExtraImages]_vars

(***************************************************************************)
(* Properties of read_points.                                              *)
(***************************************************************************)
PointsDone == rp_pc \in {"returned", "raised"}

\* read_points raised while the loop was at row row_number
RaisedAtRow == rp_pc = "raised" /\ row_number - 1 <= Len(points_sheet)

\* the sheet row of data row i
SheetRow(i) == i + 1

AllSixBlank(row) ==
    /\ normalize_text(row.order) = <<>>
    /\ normalize_text(row.title) = <<>>
    /\ normalize_text(row.content) = <<>>
    /\ normalize_text(row.image_path) = <<>>
    /\ normalize_text(row.image_caption) = <<>>
    /\ normalize_text(row.source) = <<>>

\* the order is written with digits only and lies in 1..10
OrderAccepted(row) ==
    /\ isdigit(normalize_text(row.order))
    /\ TextToNat(normalize_text(row.order)) \in 1..MAX_POINTS

RowAccepted(row) ==
    /\ OrderAccepted(row)
    /\ normalize_text(row.title) # <<>>
    /\ normalize_text(row.content) # <<>>

\* C1: whenever read_points returns, the list is non-empty, has at most 10
\* points, every order is in 1..10, and the orders are strictly ascending.
C1_ReturnedPointsSorted ==
    rp_pc = "returned" =>
        /\ points # <<>>
        /\ Len(points) <= 10
        /\ \A i \in 1..Len(points) : points[i].order \in 1..10
        /\ \A i \in 1..Len(points) - 1 : points[i].order < points[i + 1].order

\* ten points returned from a sheet whose rows were not in order
C1_Witness ==
    /\ rp_pc = "returned"
    /\ Len(points) = 10
    /\ \E i \in 1..Len(points_sheet) - 1 :
          TextToNat(normalize_text(points_sheet[i].order))
              > TextToNat(normalize_text(points_sheet[i + 1].order))

\* C6 (as claimed): a row whose order reads 3.5 fails with the
\* whole-number diagnostic of that row.
C6_NotWholeDiagnostic ==
    (/\ RaisedAtRow
     /\ normalize_text(points_sheet[row_number - 1].order) = <<"3", ".", "5">>)
        => rp_error = RowError("order_not_whole", row_number)

\* a whole number outside 1..10: an int or whole float cell, or a text of
\* digits with an optional sign
WholeNumberOutside(cell) ==
    LET text == normalize_text(cell) IN
    \/ cell.t = "int" /\ cell.n \notin 1..MAX_POINTS
    \/ cell.t = "float" /\ cell.f = 0 /\ cell.n \notin 1..MAX_POINTS
    \/ cell.t = "str" /\ isdigit(text) /\ TextToNat(text) \notin 1..MAX_POINTS
    \/ cell.t = "str" /\ Len(text) > 1 /\ text[1] = "-" /\ isdigit(Tail(text))
           /\ TextToNat(Tail(text)) # 0

\* C7 (as claimed): a row whose order is a whole number outside 1..10 fails
\* with the range diagnostic of that row, and no list is returned.
C7_RangeDiagnostic ==
    /\ (RaisedAtRow /\ WholeNumberOutside(points_sheet[row_number - 1].order))
           => rp_error = RowError("order_range", row_number)
    /\ rp_pc = "returned" =>
           \A i \in 1..Len(points_sheet) : ~WholeNumberOutside(points_sheet[i].order)

\* the data rows of order v, in a sheet whose rows are all valid
RowsWithOrder(sheet, v) ==
    {i \in 1..Len(sheet) :
        ~AllSixBlank(sheet[i]) /\ TextToNat(normalize_text(sheet[i].order)) = v}

\* C8: when every non-blank row is valid and two rows share an order,
\* read_points fails with one duplicate-order diagnostic that lists each
\* order occurring more than once exactly once, and no other order.
C8_DuplicatesListed ==
    (/\ PointsDone
     /\ \A i \in 1..Len(points_sheet) :
           AllSixBlank(points_sheet[i]) \/ RowAccepted(points_sheet[i])
     /\ \E v \in 1..MAX_POINTS : Cardinality(RowsWithOrder(points_sheet, v)) > 1)
        => /\ rp_pc = "raised"
           /\ rp_error.kind = "duplicate_orders"
           /\ \A v \in 1..MAX_POINTS :
                 Cardinality({k \in 1..Len(rp_error.values) : rp_error.values[k] = v})
                    = IF Cardinality(RowsWithOrder(points_sheet, v)) > 1 THEN 1 ELSE 0
           /\ \A k \in 1..Len(rp_error.values) : rp_error.values[k] \in 1..MAX_POINTS

\* two orders duplicated and a third occurring once
C8_Witness ==
    /\ rp_pc = "raised"
    /\ rp_error.kind = "duplicate_orders"
    /\ Len(rp_error.values) = 2
    /\ \E v \in 1..MAX_POINTS : Cardinality(RowsWithOrder(points_sheet, v)) = 1

\* a non-blank row with an empty title or content
MissingField(row) ==
    /\ ~AllSixBlank(row)
    /\ normalize_text(row.title) = <<>> \/ normalize_text(row.content) = <<>>

MissingFieldError(row, row_no) ==
    IF normalize_text(row.title) = <<>>
    THEN RowError("missing_title", row_no)
    ELSE RowError("missing_content", row_no)

\* C9 (as claimed): every non-blank row with an empty title or content makes
\* read_points fail with that row's number and the missing field, whatever
\* the row's other fields are.
C9_AlwaysNamesMissingField ==
    PointsDone =>
        \A i \in 1..Len(points_sheet) :
            MissingField(points_sheet[i]) =>
                /\ rp_pc = "raised"
                /\ rp_error.row = SheetRow(i)
                /\ rp_error.kind \in {"missing_title", "missing_content"}

\* C9 (amended): such a row always makes read_points fail; the error carries
\* the row's number and names the missing field (title before content) when
\* the row's order is accepted and every earlier non-blank row is valid.
C9_MissingFieldAfterOrder ==
    PointsDone =>
        \A i \in 1..Len(points_sheet) :
            MissingField(points_sheet[i]) =>
                /\ rp_pc = "raised"
                /\ (/\ OrderAccepted(points_sheet[i])
                    /\ \A j \in 1..i - 1 :
                          AllSixBlank(points_sheet[j]) \/ RowAccepted(points_sheet[j]))
                       => rp_error = MissingFieldError(points_sheet[i], SheetRow(i))

\* a row with an accepted order and neither title nor content, after a valid
\* row, raised as a missing title
C9_Witness ==
    /\ RaisedAtRow
    /\ row_number > 2
    /\ rp_error = RowError("missing_title", row_number)
    /\ OrderAccepted(points_sheet[row_number - 1])
    /\ normalize_text(points_sheet[row_number - 1].content) = <<>>
    /\ points # <<>>

RemoveRow(sheet, i) == SubSeq(sheet, 1, i - 1) \o SubSeq(sheet, i + 1, Len(sheet))

\* C10: a row whose six fields are all blank is skipped without error
\* wherever it occurs: the outcome is that of the sheet without the row (the
\* same points, or the same error with the later rows renumbered).
C10_BlankRowSkipped ==
    PointsDone =>
        \A i \in 1..Len(points_sheet) :
            AllSixBlank(points_sheet[i]) =>
                LET other == read_points(RemoveRow(points_sheet, i)) IN
                /\ rp_error.row # SheetRow(i)
                /\ other.error.kind = rp_error.kind
                /\ other.error.values = rp_error.values
                /\ other.error.row =
                      IF rp_error.row > SheetRow(i) THEN rp_error.row - 1 ELSE rp_error.row
                /\ rp_pc = "returned" => other.points = points

\* points returned from a sheet with a blank row between two data rows
C10_Witness ==
    /\ rp_pc = "returned"
    /\ Len(points) = 2
    /\ Len(points_sheet) = 3
    /\ AllSixBlank(points_sheet[2])

SomePositive(segs) ==
    \E i \in 1..Len(segs) :
        RPositive(segs[i].amount_btc) \/ RPositive(segs[i].percent)

Depth(bs, k) ==
    Cardinality({i \in 1..k : bs[i].tag = "<ul>"})
        - Cardinality({i \in 1..k : bs[i].tag = "</ul>"})

\* C3: scanning the emitted blocks from the start, the number of '<ul>' minus
\* the number of '</ul>' is always 0 or 1 and is 0 at the end; every '<li>'
\* is emitted while it is 1 and every '<p>' while it is 0.
C3_ListsBalanced ==
    /\ \A k \in 0..Len(blocks) : Depth(blocks, k) \in {0, 1}
    /\ \A k \in 1..Len(blocks) :
          /\ blocks[k].tag = "<li>" => Depth(blocks, k - 1) = 1
          /\ blocks[k].tag = "<p>" => Depth(blocks, k - 1) = 0
    /\ rc_pc = "returned" => Depth(blocks, Len(blocks)) = 0

\* two lists, the second closed by the end of the input
C3_Witness ==
    /\ rc_pc = "returned"
    /\ Cardinality({i \in 1..Len(blocks) : blocks[i].tag = "<ul>"}) = 2
    /\ blocks[Len(blocks)].tag = "</ul>"
    /\ blocks[Len(blocks) - 1].tag = "<li>"

\* the kind of a line, by the line with its surrounding whitespace removed
LineKind(line) ==
    LET l == Strip(line) IN
    IF l = <<>> THEN "blank"
    ELSE IF Len(l) >= 2 /\ l[1] \in {"-", "*"} /\ l[2] = " " THEN "bullet"
    ELSE "other"

RECURSIVE ExpectedTags(_, _)
\* the tags the two-state rules emit for the lines ls, a list being open or not
ExpectedTags(ls, open) ==
    IF ls = <<>> THEN (IF open THEN <<"</ul>">> ELSE <<>>)
    ELSE CASE LineKind(ls[1]) = "blank" ->
                  (IF open THEN <<"</ul>">> ELSE <<>>) \o ExpectedTags(Tail(ls), FALSE)
           [] LineKind(ls[1]) = "bullet" ->
                  (IF open THEN <<>> ELSE <<"<ul>">>) \o <<"<li>">>
                      \o ExpectedTags(Tail(ls), TRUE)
           [] OTHER ->
                  (IF open THEN <<"</ul>">> ELSE <<>>) \o <<"<p>">>
                      \o ExpectedTags(Tail(ls), FALSE)

Tags(bs) == [i \in 1..Len(bs) |-> bs[i].tag]

\* the maximal runs of consecutive bullet lines
BulletRuns(ls) ==
    {i \in 1..Len(ls) :
        LineKind(ls[i]) = "bullet" /\ (i = 1 \/ LineKind(ls[i - 1]) # "bullet")}

RECURSIVE TextsInOrder(_)
\* the texts of the non-blank lines, in input order
TextsInOrder(ls) ==
    IF ls = <<>> THEN <<>>
    ELSE CASE LineKind(ls[1]) = "blank" -> TextsInOrder(Tail(ls))
           [] LineKind(ls[1]) = "bullet" ->
                  <<Strip(SubSeq(Strip(ls[1]), 3, Len(Strip(ls[1]))))>>
                      \o TextsInOrder(Tail(ls))
           [] OTHER -> <<Strip(ls[1])>> \o TextsInOrder(Tail(ls))

RECURSIVE BlockTexts(_)
\* the texts of the '<li>' and '<p>' blocks, in output order
BlockTexts(bs) ==
    IF bs = <<>> THEN <<>>
    ELSE IF bs[1].tag \in {"<li>", "<p>"} THEN <<bs[1].text>> \o BlockTexts(Tail(bs))
    ELSE BlockTexts(Tail(bs))

ExampleTags == <<"<p>", "<ul>", "<li>", "<li>", "</ul>", "<p>">>

\* C4: the lines are rendered in input order by the two-state rules (blank:
\* only '</ul>' if a list is open; bullet: '<ul>' first if none is open, then
\* one '<li>'; other: '</ul>' first if one is open, then one '<p>'), so each
\* maximal run of bullet lines is one list, and the example text yields
\* <p>, <ul>, <li>, <li>, </ul>, <p>.
C4_TwoStateRules ==
    rc_pc = "returned" =>
        /\ Tags(blocks) = ExpectedTags(SplitLines(ReplaceCRLF(raw)), FALSE)
        /\ BlockTexts(blocks) = TextsInOrder(SplitLines(ReplaceCRLF(raw)))
        /\ Cardinality({i \in 1..Len(blocks) : blocks[i].tag = "<ul>"})
              = Cardinality(BulletRuns(SplitLines(ReplaceCRLF(raw))))
        /\ raw = ExampleContent => Tags(blocks) = ExampleTags

\* the example text rendered
C4_Witness ==
    /\ rc_pc = "returned"
    /\ raw = ExampleContent
    /\ Tags(blocks) = ExampleTags

\* two bullet runs separated by a paragraph line rendered as two lists
C4_WitnessRuns ==
    /\ rc_pc = "returned"
    /\ Tags(blocks) = <<"<ul>", "<li>", "</ul>", "<p>", "<ul>", "<li>", "<li>", "</ul>">>

(***************************************************************************)
(* Properties of the build run.                                            *)
(***************************************************************************)
\* s is a subsequence of t
RECURSIVE IsSubsequence(_, _)
IsSubsequence(s, t) ==
    IF s = <<>> THEN TRUE
    ELSE IF t = <<>> THEN FALSE
    ELSE IF s[1] = t[1] THEN IsSubsequence(Tail(s), Tail(t))
    ELSE IsSubsequence(s, Tail(t))

\* C5: the output file is written only after meta parsing, points parsing,
\* distribution parsing and rendering have completed, in that order; a run
\* in which one of the steps before the write raises leaves the output file
\* as it was.
C5_NoPartialOutput ==
    /\ out_file \in {"new", "partial"} =>
          IsSubsequence(<<"meta", "points", "distribution", "render">>, completed)
    /\ (pc = "failed" /\ error.kind # "write") => out_file \in {"absent", "old"}
    /\ pc = "done" => out_file = "new"

\* a run that failed in read_distribution, after the points were read, with
\* an output file of an earlier run in place
C5_Witness ==
    /\ pc = "failed"
    /\ error.kind = "negative_amount"
    /\ completed = <<"load", "snapshot", "open", "meta", "points">>
    /\ out_file = "old"

\* a run that wrote the output
C5_WitnessDone ==
    /\ pc = "done"
    /\ out_file = "new"
    /\ completed = <<"load", "snapshot", "meta", "points", "distribution",
                     "render", "write">>

(***************************************************************************)
(* Properties of the default distribution.                                 *)
(***************************************************************************)
\* the distribution step of the run has completed
DistributionStepDone == \E i \in 1..Len(completed) : completed[i] = "distribution"

\* the table yields no usable row: every data row has a blank category and an
\* amount that is not positive
NoUsableRows ==
    \A i \in 1..Len(distribution_rows) :
        /\ normalize_text(distribution_rows[i].category) = <<>>
        /\ ~RPositive(parse_number(distribution_rows[i].amount_btc, Num(0)))

DefaultApplies == "distribution" \notin source.sheets \/ NoUsableRows

\* the (category, amount, color) triples of a segment list
SegmentTriples(segs) ==
    {<<segs[i].category, segs[i].amount_btc, segs[i].color>> : i \in 1..Len(segs)}

DescendingByAmount(segs) ==
    \A i, j \in 1..Len(segs) :
        i < j => ~RLess(segs[i].amount_btc, segs[j].amount_btc)

C11_WitnessAbsent ==
    /\ pc = "done"
    /\ "distribution" \notin source.sheets
    /\ Len(distribution) = 8

(***************************************************************************)
(* Properties of the order of the finalized segments.                      *)
(***************************************************************************)
\* the position a returned segment had in the input (the inputs of
\* SpecDistribution carry distinct categories)
InputIndex(s) == CHOOSE i \in 1..Len(segments) : segments[i].category = s.category

\* C12: the segments returned by finalize_distribution_segments are the input
\* segments (same category, amount and color, each once), ordered by amount
\* descending, and segments of equal amount keep their input order.
C12_StableDescendingPermutation ==
    fd_pc = "returned" =>
        /\ Len(normalized) = Len(segments)
        /\ \A j, k \in 1..Len(normalized) :
               j # k => normalized[j].category # normalized[k].category
        /\ \A j \in 1..Len(normalized) :
               \E i \in 1..Len(segments) :
                   /\ segments[i].category = normalized[j].category
                   /\ segments[i].amount_btc = normalized[j].amount_btc
                   /\ segments[i].color = normalized[j].color
        /\ \A j, k \in 1..Len(normalized) :
               j < k =>
                   \/ RLess(normalized[k].amount_btc, normalized[j].amount_btc)
                   \/ /\ normalized[k].amount_btc = normalized[j].amount_btc
                      /\ InputIndex(normalized[j]) < InputIndex(normalized[k])

\* a tie that had to move: the input is (1, 3/2, 3/2) and the two segments of
\* amount 3/2 come first, in their input order
C12_Witness ==
    /\ fd_pc = "returned"
    /\ Len(segments) = 3
    /\ segments[1].amount_btc = Num(1)
    /\ segments[2].amount_btc = Rat(3, 2)
    /\ segments[3].amount_btc = Rat(3, 2)
    /\ normalized[1].category = segments[2].category
    /\ normalized[2].category = segments[3].category
    /\ normalized[3].category = segments[1].category

(***************************************************************************)
(* Properties of read_distribution.                                        *)
(***************************************************************************)
\* the category and the amount read_distribution takes from the data row
\* the loop is at
RowCategory == normalize_text(distribution_rows[rd_index].category)
RowAmount == parse_number(distribution_rows[rd_index].amount_btc, Num(0))

\* the loop is at a data row
DecidingRow == rd_pc = "loop" /\ rd_index <= Len(distribution_rows)

\* the decision taken on the data row the loop is at
RowDecision ==
    IF RowCategory = <<>> /\ ~RPositive(RowAmount)
    THEN /\ rd_pc' = "loop"
         /\ rd_index' = rd_index + 1
         /\ segments' = segments
         /\ rd_error' = NoError
    ELSE IF RowCategory = <<>>
    THEN /\ rd_pc' = "raised"
         /\ rd_error'.kind = "missing_category"
         /\ segments' = segments
    ELSE IF RLess(RowAmount, Num(0))
    THEN /\ rd_pc' = "raised"
         /\ rd_error' = ListError("negative_amount", <<RowCategory>>)
         /\ segments' = segments
    ELSE /\ rd_pc' = "loop"
         /\ rd_index' = rd_index + 1
         /\ rd_error' = NoError
         /\ Len(segments') = Len(segments) + 1
         /\ SubSeq(segments', 1, Len(segments)) = segments
         /\ segments'[Len(segments')].category = RowCategory
         /\ segments'[Len(segments')].amount_btc = RowAmount

\* C13: every step read_distribution takes on a data row follows the table:
\* blank category and amount <= 0: skipped; blank category and amount > 0:
\* error; non-blank category and negative amount: error naming the category;
\* otherwise exactly one segment is appended.
C13_RowDecisionTable == [][DecidingRow => RowDecision]_vars

\* a row with a non-blank category and a negative amount, after an appended
\* row, raised the error naming its category
C13_Witness ==
    /\ rd_pc = "raised"
    /\ rd_index = 2
    /\ Len(segments) = 1
    /\ rd_error.kind = "negative_amount"
    /\ rd_error.values = <<normalize_text(distribution_rows[2].category)>>
    /\ rd_error.values # <<segments[1].category>>

\* a row with a blank category and a positive amount raised
C13_WitnessMissingCategory ==
    /\ rd_pc = "raised"
    /\ rd_error.kind = "missing_category"
    /\ normalize_text(distribution_rows[rd_index].category) = <<>>

\* the amount cell of data row i is missing: blank, or not a number
MissingAmount(i) ==
    LET text == RemoveCommas(normalize_text(distribution_rows[i].amount_btc))
    IN text = <<>> \/ ~ParseFloat(text).ok

\* C14: a data row with a non-blank category and a missing amount is never
\* accepted as a segment: the loop does not get past it, and the error raised
\* at it names its category.
C14_MissingAmountRejected ==
    \A i \in 1..Len(distribution_rows) :
        (/\ rd_pc \in {"loop", "finalize", "raised"}
         /\ normalize_text(distribution_rows[i].category) # <<>>
         /\ MissingAmount(i)
         /\ i <= rd_index)
        => /\ rd_index = i
           /\ rd_pc = "raised" => rd_error.values = <<normalize_text(distribution_rows[i].category)>>
           /\ rd_pc # "finalize"

(***************************************************************************)
(* Properties of read_meta.                                                *)
(***************************************************************************)
MetaKey(i) == normalize_text(meta_rows[i].key)
MetaValue(i) == normalize_text(meta_rows[i].value)

\* the keys of the rows with a non-blank key
DataKeys == {MetaKey(i) : i \in 1..Len(meta_rows)} \ {<<>>}

\* row i is the last row of its key
LastOfKey(i) == \A j \in 1..Len(meta_rows) : MetaKey(j) = MetaKey(i) => j <= i

\* C15: the mapping read_meta returns has exactly the non-blank keys of the
\* rows and the default keys; a key of the data has the value of its last row,
\* blank or not; a default key absent from the data has its default value.
C15_MetaMapping ==
    rm_pc = "returned" =>
        /\ DOMAIN meta = DataKeys \cup DOMAIN DEFAULT_META
        /\ <<>> \notin DOMAIN meta
        /\ \A i \in 1..Len(meta_rows) :
               (MetaKey(i) # <<>> /\ LastOfKey(i)) => meta[MetaKey(i)] = MetaValue(i)
        /\ \A k \in DOMAIN DEFAULT_META \ DataKeys : meta[k] = DEFAULT_META[k]

\* a default key set twice, last with a blank value, keeps the blank value;
\* the other defaults are filled in
C15_Witness ==
    /\ rm_pc = "returned"
    /\ Len(meta_rows) = 2
    /\ MetaKey(1) = <<"i", "m", "a", "g", "e", "_", "d", "i", "r">>
    /\ MetaKey(2) = <<"i", "m", "a", "g", "e", "_", "d", "i", "r">>
    /\ MetaValue(1) = <<"v">>
    /\ MetaValue(2) = <<>>
    /\ meta[<<"i", "m", "a", "g", "e", "_", "d", "i", "r">>] = <<>>
    /\ DEFAULT_META[<<"i", "m", "a", "g", "e", "_", "d", "i", "r">>] # <<>>
    /\ meta[MaxSupplyKey] = DEFAULT_META[MaxSupplyKey]

\* a row with a blank key and a value contributes nothing
C15_WitnessBlankKey ==
    /\ rm_pc = "returned"
    /\ Len(meta_rows) = 1
    /\ MetaKey(1) = <<>>
    /\ MetaValue(1) = <<"v">>
    /\ DOMAIN meta = DOMAIN DEFAULT_META

(***************************************************************************)
(* Properties of the header row.                                           *)
(***************************************************************************)
\* two characters are the same letter, whatever their case
SameLetter(c, d) ==
    \/ c = d
    \/ \E i \in 1..26 : {c, d} = {UpperLetters[i], LowerLetters[i]}

EqualIgnoringCase(a, b) ==
    /\ Len(a) = Len(b)
    /\ \A i \in 1..Len(a) : SameLetter(a[i], b[i])

\* the columns whose trimmed header is name, in any case
ColumnsNamed(name) ==
    {i \in 1..Len(headers) : EqualIgnoringCase(Strip(PyStr(headers[i])), name)}

\* the required columns the sheet lacks, in the order of the required list
ExpectedMissing(required) ==
    SelectSeq(required, LAMBDA name : ColumnsNamed(name) = {})

\* C16: headers are matched trimmed and whatever their case.  If required
\* columns are missing the read raises one error that names the table and
\* exactly the missing required columns, with no data row examined; if none
\* is missing the read goes on, each field taken from a column of its name.
C16_MissingColumnsDiagnostic ==
    /\ rp_pc \in {"loop", "returned", "raised"} =>
          IF ExpectedMissing(PointsRequired) # <<>>
          THEN /\ rp_pc = "raised"
               /\ rp_error = ListError("missing_points_columns",
                                       ExpectedMissing(PointsRequired))
               /\ row_number = 2
               /\ points = <<>>
               /\ points_sheet = <<>>
          ELSE /\ rp_error.kind # "missing_points_columns"
               /\ Len(points_sheet) = Len(sheet_rows)
               /\ \A i \in 1..Len(sheet_rows) :
                     /\ \E c \in ColumnsNamed(<<"o", "r", "d", "e", "r">>) :
                           points_sheet[i].order = sheet_rows[i][c]
                     /\ \E c \in ColumnsNamed(<<"t", "i", "t", "l", "e">>) :
                           points_sheet[i].title = sheet_rows[i][c]
                     /\ \E c \in ColumnsNamed(<<"c", "o", "n", "t", "e", "n", "t">>) :
                           points_sheet[i].content = sheet_rows[i][c]
    /\ rd_pc \in {"loop", "finalize", "raised"} =>
          IF ExpectedMissing(DistributionRequired) # <<>>
          THEN /\ rd_pc = "raised"
               /\ rd_error = ListError("missing_distribution_columns",
                                       ExpectedMissing(DistributionRequired))
               /\ rd_index = 1
               /\ segments = <<>>
               /\ distribution_rows = <<>>
          ELSE /\ rd_error.kind # "missing_distribution_columns"
               /\ Len(distribution_rows) = Len(sheet_rows)
               /\ \A i \in 1..Len(sheet_rows) :
                     /\ \E c \in ColumnsNamed(<<"c", "a", "t", "e", "g", "o", "r", "y">>) :
                           distribution_rows[i].category = sheet_rows[i][c]
                     /\ \E c \in ColumnsNamed(<<"a", "m", "o", "u", "n", "t", "_", "b", "t", "c">>) :
                           distribution_rows[i].amount_btc = sheet_rows[i][c]

\* a points sheet with data rows lacks two required columns: one error names
\* both
C16_Witness ==
    /\ rp_pc = "raised"
    /\ sheet_rows # <<>>
    /\ rp_error = ListError("missing_points_columns",
                            <<<<"i", "m", "a", "g", "e", "_", "p", "a", "t", "h">>, <<"i", "m", "a", "g", "e", "_", "c", "a", "p", "t", "i", "o", "n">>>>)

\* a distribution sheet lacks its three required columns
C16_WitnessDistribution ==
    /\ rd_pc = "raised"
    /\ rd_error = ListError("missing_distribution_columns", DistributionRequired)

\* headers written " Order ", "TITLE", ... are matched and a point is read
C16_WitnessCase ==
    /\ rp_pc = "returned"
    /\ headers[1] = StrCell(<<" ", "O", "r", "d", "e", "r", " ">>)
    /\ headers[2] = StrCell(<<"T", "I", "T", "L", "E">>)
    /\ points # <<>>

(***************************************************************************)
(* Properties of emphasize_numbers.                                        *)
(***************************************************************************)
StrongParts == {i \in 1..Len(em_output) : em_output[i].strong}

\* the emphasized tokens, in order
StrongTexts == SelectSeq([i \in 1..Len(em_output) |->
                             IF em_output[i].strong THEN em_output[i].text ELSE <<>>],
                         LAMBDA x : x # <<>>)

\* position i holds a digit of a run of digits that follows a letter or an
\* underscore
DigitInsideWord(i) ==
    /\ IsDigitChar(em_text[i])
    /\ \E j \in 1..(i - 1) :
          /\ IsWordChar(em_text[j]) /\ ~IsDigitChar(em_text[j])
          /\ \A m \in (j + 1)..i : IsDigitChar(em_text[m])

\* C17: the parts of the output cover the input in order; no emphasized token
\* has a word character of the input just before or just after it; no digit
\* of a run that follows a letter or underscore is emphasized ('Q4' has no
\* token); the example sentence has exactly the tokens '12,500' and '3.2%'.
C17_TokensNotInsideWords ==
    em_pc = "returned" =>
        /\ em_output[1].from = 1
        /\ em_output[Len(em_output)].to = Len(em_text)
        /\ \A i \in 1..(Len(em_output) - 1) : em_output[i + 1].from = em_output[i].to + 1
        /\ \A i \in StrongParts :
              /\ em_output[i].from <= em_output[i].to
              /\ em_output[i].from = 1 \/ ~IsWordChar(em_text[em_output[i].from - 1])
              /\ em_output[i].to = Len(em_text)
                    \/ ~IsWordChar(em_text[em_output[i].to + 1])
        /\ \A p \in 1..Len(em_text) :
              DigitInsideWord(p) =>
                  \A i \in StrongParts : ~(em_output[i].from <= p /\ p <= em_output[i].to)
        /\ em_text = ExampleWord => StrongParts = {}
        /\ em_text = ExampleSentence => StrongTexts = <<<<"1", "2", ",", "5", "0", "0">>, <<"3", ".", "2", "%">>>>

\* the example sentence was processed
C17_Witness ==
    /\ em_pc = "returned"
    /\ em_text = ExampleSentence
    /\ Cardinality(StrongParts) = 2

\* 'Q1,234k': digits after a letter, nothing emphasized although '1,234k'
\* alone is a token
C17_WitnessWord ==
    /\ em_pc = "returned"
    /\ em_text = <<"Q", "1", ",", "2", "3", "4", "k">>
    /\ StrongTexts = <<<<"2", "3", "4", "k">>>>

(***************************************************************************)
(* Properties of resolve_image_path.                                       *)
(***************************************************************************)
ExplicitPath == Strip(point.image_path)

RemoteLooking(path) ==
    \/ StartsWith(path, <<"h", "t", "t", "p", ":", "/", "/">>)
    \/ StartsWith(path, <<"h", "t", "t", "p", "s", ":", "/", "/">>)
    \/ StartsWith(path, <<"d", "a", "t", "a", ":">>)
    \/ StartsWith(path, <<"c", "i", "d", ":">>)

\* the four order-number candidates, in the order png, jpg, jpeg, webp
OrderCandidates ==
    <<JoinPath(ImageDir(meta), IntToText(point.order) \o <<".", "p", "n", "g">>),
      JoinPath(ImageDir(meta), IntToText(point.order) \o <<".", "j", "p", "g">>),
      JoinPath(ImageDir(meta), IntToText(point.order) \o <<".", "j", "p", "e", "g">>),
      JoinPath(ImageDir(meta), IntToText(point.order) \o <<".", "w", "e", "b", "p">>)>>

ExistingCandidates == {i \in 1..4 : OrderCandidates[i] \in files}

FirstExisting == CHOOSE i \in ExistingCandidates : \A j \in ExistingCandidates : i <= j

\* C18: with a non-blank image_path no order-number candidate is probed: a
\* remote-looking path is returned with no existence check, a local path is
\* returned if it exists and the result is empty otherwise.  With a blank
\* image_path nothing is probed when auto-resolution is off; when it is on
\* the candidates png, jpg, jpeg, webp are probed in that order up to the
\* first that exists, which is returned.
C18_ExplicitPathWins ==
    img_pc = "resolved" =>
        IF ExplicitPath # <<>>
        THEN IF RemoteLooking(ExplicitPath)
             THEN probed = <<>> /\ image_src = ExplicitPath
             ELSE /\ probed = <<ExplicitPath>>
                  /\ image_src = IF ExplicitPath \in files THEN ExplicitPath ELSE <<>>
        ELSE IF ~AutoImageByOrder(meta)
             THEN probed = <<>> /\ image_src = <<>>
             ELSE IF ExistingCandidates = {}
                  THEN probed = OrderCandidates /\ image_src = <<>>
                  ELSE /\ probed = SubSeq(OrderCandidates, 1, FirstExisting)
                                      \o <<OrderCandidates[FirstExisting]>>
                       /\ image_src = OrderCandidates[FirstExisting]

\* an explicit local path that does not exist: the image is omitted although
\* an order-number file exists
C18_Witness ==
    /\ img_pc = "resolved"
    /\ ExplicitPath = <<"a", ".", "p", "n", "g">>
    /\ ExplicitPath \notin files
    /\ AutoImageByOrder(meta)
    /\ ExistingCandidates # {}
    /\ image_src = <<>>

\* auto-resolution takes the jpeg although the webp exists too
C18_WitnessAuto ==
    /\ img_pc = "resolved"
    /\ ExplicitPath = <<>>
    /\ ExistingCandidates = {3, 4}
    /\ image_src = OrderCandidates[3]

\* a remote-looking path is returned unchecked
C18_WitnessRemote ==
    /\ img_pc = "resolved"
    /\ ExplicitPath = <<"d", "a", "t", "a", ":", "x">>
    /\ image_src = <<"d", "a", "t", "a", ":", "x">>
    /\ probed = <<>>

(***************************************************************************)
(* Properties of resolve_extra_image_paths.                                *)
(***************************************************************************)
ExtraReturned == img_pc = "returned"

\* the configured maximum, read from the meta text: blank, absent or
\* unparseable is the default, a fraction is cut, then clamped to 0..20
ConfiguredMaximum ==
    LET n == IntTrunc(parse_number(StrCell(MetaGet(meta, <<"m", "a", "x", "_", "e", "x", "t", "r", "a", "_", "i", "m", "a", "g", "e", "s">>, <<"1", "0">>)),
                                   Num(10)))
    IN IF n < 0 THEN 0 ELSE IF n > 20 THEN 20 ELSE n

\* the indices and extensions a probed path may stand for
ProbeSlots == (1..(MaxExtraImagesLimit + 1)) \X (1..Len(Extensions))

\* the <<index, extension>> of the k-th probe
ProbeSlot(k) ==
    CHOOSE c \in ProbeSlots : probed[k] = ExtraCandidate(meta, point.order, c[1], c[2])

\* the first existing extension of an index, 0 if none
FirstExtension(index) ==
    IF ExtraHits(meta, point.order, index) = {} THEN 0
    ELSE CHOOSE i \in ExtraHits(meta, point.order, index) :
             \A j \in ExtraHits(meta, point.order, index) : i <= j

\* the indices of 1..M that have an existing candidate
FoundIndices == {index \in 1..ConfiguredMaximum : FirstExtension(index) # 0}

\* C19: the extra images are probed for the indices 1..M in ascending order,
\* M being the configured maximum (default 10) clamped to 0..20; each index
\* gives at most one path, that of its first existing extension among png,
\* jpg, jpeg, webp; an index without a file does not stop the later ones; at
\* most M paths are returned; nothing is returned when the automatic
\* resolution is off
C19_ExtraImagesBounded ==
    ExtraReturned =>
        IF ~parse_bool(StrCell(MetaGet(meta, <<"a", "u", "t", "o", "_", "i", "m", "a", "g", "e", "_", "b", "y", "_", "o", "r", "d", "e", "r">>, <<"t", "r", "u", "e">>)))
        THEN sources = <<>> /\ probed = <<>>
        ELSE /\ Len(sources) <= ConfiguredMaximum
             /\ ConfiguredMaximum <= 20
             /\ Len(sources) = Cardinality(FoundIndices)
             /\ \A index \in FoundIndices :
                    \E k \in 1..Len(sources) :
                        sources[k] = ExtraCandidate(meta, point.order, index,
                                                    FirstExtension(index))
             /\ \A k \in 1..Len(sources) : Exists(sources[k])
             /\ \A k \in 1..Len(probed) :
                    /\ \E c \in ProbeSlots :
                           probed[k] = ExtraCandidate(meta, point.order, c[1], c[2])
                    /\ LET c == ProbeSlot(k)
                       IN /\ c[1] \in 1..ConfiguredMaximum
                          /\ FirstExtension(c[1]) # 0 => c[2] <= FirstExtension(c[1])
             /\ \A k \in 1..(Len(probed) - 1) :
                    LET a == ProbeSlot(k)
                        b == ProbeSlot(k + 1)
                    IN \/ a[1] < b[1]
                       \/ a[1] = b[1] /\ a[2] < b[2]
             /\ \A index \in 1..ConfiguredMaximum :
                    \E k \in 1..Len(probed) :
                        \E i \in 1..Len(Extensions) :
                            probed[k] = ExtraCandidate(meta, point.order, index, i)
             /\ \A k \in 1..(Len(sources) - 1) :
                    \E i, j \in FoundIndices :
                        /\ i < j
                        /\ sources[k] = ExtraCandidate(meta, point.order, i,
                                                       FirstExtension(i))
                        /\ sources[k + 1] = ExtraCandidate(meta, point.order, j,
                                                           FirstExtension(j))

\* a run with the maximum 2.7 cut to 2: index 1 has no file, index 2 has one
\* and is returned; the file of index 3 is not
C19_Witness ==
    /\ ExtraReturned
    /\ MetaGet(meta, <<"m", "a", "x", "_", "e", "x", "t", "r", "a", "_", "i", "m", "a", "g", "e", "s">>, <<"1", "0">>) = <<"2", ".", "7">>
    /\ ConfiguredMaximum = 2
    /\ FirstExtension(1) = 0
    /\ Len(sources) = 1
    /\ Exists(ExtraCandidate(meta, point.order, 3, 3))
    /\ Len(probed) = 8

\* a run with the maximum 25 clamped to 20: the file of index 20 is returned,
\* that of index 21 never probed
C19_WitnessClamped ==
    /\ ExtraReturned
    /\ MetaGet(meta, <<"m", "a", "x", "_", "e", "x", "t", "r", "a", "_", "i", "m", "a", "g", "e", "s">>, <<"1", "0">>) = <<"2", "5">>
    /\ Exists(ExtraCandidate(meta, point.order, 21, 1))
    /\ Exists(ExtraCandidate(meta, point.order, 20, 1))
    /\ Len(sources) = 1

\* a run with the default maximum, two extensions of index 1 exist
C19_WitnessDefault ==
    /\ ExtraReturned
    /\ <<"m", "a", "x", "_", "e", "x", "t", "r", "a", "_", "i", "m", "a", "g", "e", "s">> \notin DOMAIN meta
    /\ Cardinality(ExtraHits(meta, point.order, 1)) = 2
    /\ ConfiguredMaximum = 10
    /\ Len(sources) = 1
    /\ Len(probed) = 37

\* a run with the automatic resolution off although a file exists
C19_WitnessOff ==
    /\ ExtraReturned
    /\ ~AutoImageByOrder(meta)
    /\ Exists(ExtraCandidate(meta, point.order, 1, 1))

(***************************************************************************)
(* Properties of read_points: the first failure wins.                      *)
(***************************************************************************)
\* the data rows that are not blank and fail their own validation
InvalidRowIndices ==
    {i \in 1..Len(points_sheet) :
        ~AllSixBlank(points_sheet[i]) /\ ~RowAccepted(points_sheet[i])}

LowestInvalidRow == CHOOSE i \in InvalidRowIndices : \A j \in InvalidRowIndices : i <= j

OrderErrorKinds == {"missing_order", "order_not_whole", "invalid_order", "order_range"}

\* the kind of failure of an invalid row: its order, else its title, else
\* its content
FirstFailureKinds(row) ==
    IF ~OrderAccepted(row) THEN OrderErrorKinds
    ELSE IF normalize_text(row.title) = <<>> THEN {"missing_title"}
    ELSE {"missing_content"}

\* C20: read_points stops at the first failure in sheet order: with invalid
\* rows the one error raised is that of the lowest-numbered invalid non-blank
\* row (its order error, else its missing title, else its missing content),
\* it carries nothing of the later rows, and the duplicate-order error is
\* raised only when every non-blank row passed its own validation
C20_FirstFailureWins ==
    PointsDone =>
        /\ InvalidRowIndices # {} =>
              /\ rp_pc = "raised"
              /\ rp_error.row = SheetRow(LowestInvalidRow)
              /\ rp_error.kind \in FirstFailureKinds(points_sheet[LowestInvalidRow])
              /\ rp_error.values = <<>>
              /\ row_number = SheetRow(LowestInvalidRow)
        /\ rp_error.kind = "duplicate_orders" => InvalidRowIndices = {}

\* two invalid rows with different failures, the second one's never raised
C20_Witness ==
    /\ rp_pc = "raised"
    /\ Cardinality(InvalidRowIndices) = 2
    /\ \E j \in InvalidRowIndices :
          /\ j # LowestInvalidRow
          /\ FirstFailureKinds(points_sheet[j])
                 # FirstFailureKinds(points_sheet[LowestInvalidRow])
    /\ rp_error.kind = "missing_title"

\* an invalid row after two valid rows of the same order: no duplicate error
C20_WitnessDuplicate ==
    /\ rp_pc = "raised"
    /\ Len(points) = 2
    /\ points[1].order = points[2].order
    /\ InvalidRowIndices # {}
    /\ rp_error.kind \in OrderErrorKinds

(***************************************************************************)
(* Properties of the percents of the finalized segments.                   *)
(***************************************************************************)
\* the denominator as stated: the reference total if positive, else the sum
\* of the amounts if positive, else 1
StatedDenominator ==
    IF RPositive(max_supply_btc) THEN max_supply_btc
    ELSE IF RPositive(SumAmounts(segments)) THEN SumAmounts(segments)
    ELSE Num(1)

\* the percent of input segment i before the rescale
PreRescale(i) ==
    IF RPositive(segments[i].percent) THEN segments[i].percent
    ELSE RMul(RDiv(segments[i].amount_btc, StatedDenominator), Num(100))

RECURSIVE PreRescaleSum(_)
PreRescaleSum(k) == IF k = 0 THEN Num(0) ELSE RAdd(PreRescaleSum(k - 1), PreRescale(k))

PreRescaleTotal == PreRescaleSum(Len(segments))

NoSuppliedPercent == \A i \in 1..Len(segments) : ~RPositive(segments[i].percent)

\* C21: for a non-empty list whose pre-rescale total is positive, every
\* returned percent is pre_i / (sum of pre_j) * 100; a supplied positive
\* percent comes back unchanged exactly when the pre-rescale total is 100;
\* and with no positive supplied percent the result is the same under
\* every reference total
C21_PercentsRescaled ==
    (fd_pc = "returned" /\ segments # <<>> /\ RPositive(PreRescaleTotal)) =>
        /\ \A j \in 1..Len(normalized) :
               normalized[j].percent =
                   RMul(RDiv(PreRescale(InputIndex(normalized[j])), PreRescaleTotal),
                        Num(100))
        /\ \A j \in 1..Len(normalized) :
               RPositive(segments[InputIndex(normalized[j])].percent) =>
                   (normalized[j].percent = segments[InputIndex(normalized[j])].percent
                        <=> PreRescaleTotal = Num(100))
        /\ NoSuppliedPercent =>
               \A m \in MaxSupplies :
                   normalized = finalize_distribution_segments(segments, m)

\* a supplied percent of 40 next to a derived one, total not 100: the 40 is
\* changed by the rescale
C21_Witness ==
    /\ fd_pc = "returned"
    /\ Len(segments) = 2
    /\ RPositive(max_supply_btc)
    /\ segments[1].percent = Num(40)
    /\ ~RPositive(segments[2].percent)
    /\ RPositive(segments[2].amount_btc)
    /\ PreRescaleTotal # Num(100)
    /\ RPositive(PreRescaleTotal)
    /\ \A j \in 1..Len(normalized) : normalized[j].percent # Num(40)

\* supplied 40 and 40 and a derived 20: the total is 100 and the supplied
\* percents are returned as they were
C21_WitnessKept ==
    /\ fd_pc = "returned"
    /\ Len(segments) = 3
    /\ PreRescaleTotal = Num(100)
    /\ Cardinality({j \in 1..Len(normalized) : normalized[j].percent = Num(40)}) = 2
    /\ \E j \in 1..Len(normalized) : normalized[j].percent = Num(20)

\* no supplied percent, amounts 1 and 3/2 under the reference total 21: the
\* percents are 40 and 60, those of the amounts alone
C21_WitnessNoSupplied ==
    /\ fd_pc = "returned"
    /\ Len(segments) = 2
    /\ NoSuppliedPercent
    /\ max_supply_btc = Num(21)
    /\ normalized[1].amount_btc = Rat(3, 2)
    /\ normalized[1].percent = Num(60)
    /\ normalized[2].percent = Num(40)

(***************************************************************************)
(* Properties of read_points: the count check.                             *)
(***************************************************************************)
\* the data rows that are not blank
NonBlankRows == {i \in 1..Len(points_sheet) : ~AllSixBlank(points_sheet[i])}

\* more than 10 non-blank rows, each of them valid on its own
MoreThanMaxValidRows ==
    /\ Cardinality(NonBlankRows) > 10
    /\ \A i \in NonBlankRows : RowAccepted(points_sheet[i])

\* C22: read_points never raises "Found N points. Max allowed is 10": a
\* sheet with more than 10 non-blank rows that are each valid fails with the
\* duplicate-order diagnostic
C22_TooManyUnreachable ==
    /\ rp_error.kind # "too_many"
    /\ (PointsDone /\ MoreThanMaxValidRows) =>
           /\ rp_pc = "raised"
           /\ rp_error.kind = "duplicate_orders"
           /\ rp_error.values # <<>>

\* eleven valid rows were read and the duplicate-order error was raised
C22_Witness ==
    /\ rp_pc = "raised"
    /\ MoreThanMaxValidRows
    /\ Len(points) = 11
    /\ rp_error.kind = "duplicate_orders"

(***************************************************************************)
(* Properties of the history snapshot of a build run.                      *)
(***************************************************************************)
\* the position of a step among the completed steps, 0 if it has not run
StepIndex(step) ==
    IF \E i \in 1..Len(completed) : completed[i] = step
    THEN CHOOSE i \in 1..Len(completed) : completed[i] = step
    ELSE 0

\* the steps that parse or validate a table
ParsingSteps == {"open", "meta", "points", "distribution"}

\* the snapshot of this run is in the history directory
SnapshotOnDisk ==
    /\ backup_path # NoPath
    /\ backup_path \in DOMAIN history
    /\ history[backup_path] = SnapshotContent

\* the run ended in a step that parses or validates a table
FailedValidation ==
    /\ pc = "failed"
    /\ error.kind \notin {"load", "snapshot", "render", "write"}

C23_WitnessGoogle ==
    /\ pc = "failed"
    /\ source.kind = "google"
    /\ error.kind = "negative_amount"
    /\ SnapshotOnDisk
    /\ history[backup_path] = "rows"

\* a workbook without its required sheets: the copy was made before the
\* workbook was opened
C23_WitnessOpen ==
    /\ pc = "failed"
    /\ error.kind = "open"
    /\ SnapshotOnDisk

\* the minute and the second name were taken: the snapshot of the run
\* replaced the earlier file of the second name
C23_WitnessOverwritten ==
    /\ FailedValidation
    /\ backup_path = SecondName
    /\ history[MinuteName] = "earlier"
    /\ SnapshotOnDisk

====
